---- MODULE Spec2Model ----
(***************************************************************************)
(* State-machine model of the I2S transfer layer of stm32_i2s              *)
(* (src/src/transfer.rs) on top of the register-level driver               *)
(* (src/src/driver.rs).  One I2sTransfer value is modelled together with   *)
(* the enable bit of the peripheral it owns.  What the hardware returns    *)
(* (status register, data register, level of the WS pin) is an input of    *)
(* each step.                                                              *)
(***************************************************************************)
EXTENDS Integers, Sequences, FiniteSets, TLC

\* Largest number of frames an iterator handed to write_iter yields.
MaxIter == 2

\* ------------------------------------------------------------------------
\* Typestate markers (src/src/marker.rs)

Roles == {"Master", "Slave"}
Directions == {"Transmit", "Receive"}
Standards == {"Philips", "Msb", "Lsb", "PcmShortSync", "PcmLongSync"}
DataFormats ==
    {"Data16Channel16", "Data16Channel32", "Data24Channel32", "Data32Channel32"}

\* trait Data16: the formats whose AudioFrame is (i16, i16)
Data16(f) == f \in {"Data16Channel16", "Data16Channel32"}

\* trait ChannelFlag: the standards where CHSIDE is meaningful
ChannelFlag(s) == s \in {"Philips", "Msb", "Lsb"}

\* I2sStandard::WS_START_LEVEL, TRUE meaning the high level
WS_START_LEVEL(s) == s # "Philips"

FrameStates == {"LeftMsb", "LeftLsb", "RightMsb", "RightLsb"}

\* ------------------------------------------------------------------------
\* Integer conversions of the sample codec.  A sample is a signed integer,
\* a data register word is an unsigned 16 bit integer.

\* `x as u16` of a signed integer (truncating cast)
AsU16(x) == x % 65536

\* `w as i16` of an unsigned 16 bit word (sign-preserving cast)
AsI16(w) == IF w >= 32768 THEN w - 65536 ELSE w

\* `(x as u32 >> 16) as u16` : the high half of a 32 bit sample
HighWord(x) == (x \div 65536) % 65536

\* `(x as u32 & 0xFFFF) as u16` : the low half of a 32 bit sample
LowWord(x) == x % 65536

\* `(data as i32) << 16` with i32 wrap-around
ShiftHigh(data) == AsI16(data) * 65536

RECURSIVE BitOr(_, _, _)
\* bitwise or of two unsigned integers over the n low bits
BitOr(a, b, n) ==
    IF n = 0 THEN 0
    ELSE (IF (a % 2 = 1) \/ (b % 2 = 1) THEN 1 ELSE 0)
         + 2 * BitOr(a \div 2, b \div 2, n - 1)

\* `x |= data as i32` : only the low 16 bits of x can change
OrLow(x, data) == (x \div 65536) * 65536 + BitOr(x % 65536, data, 16)

\* ------------------------------------------------------------------------
\* Inputs

\* Sample values the caller passes to a transmitting Transfer
Samples(f) == IF Data16(f) THEN {1, -1} ELSE {65538, -1}

FrameArgs(f) == Samples(f) \X Samples(f)

\* Values the data register returns to a receiving Transfer
DrValues == {1, 65535}

\* Levels of the WS pin, TRUE meaning high
Levels == BOOLEAN

\* Default::default() of AudioFrame, (0, 0)
DefaultFrame == <<0, 0>>

\* "no frame" (None, or no frame delivered)
NoFrame == <<>>

\* Content of the status register as the Status getters of a mode expose it:
\* a flag a mode has no getter for is left FALSE, CHSIDE is TRUE for Right.
StatusValues(m, d) ==
    { s \in [txe : BOOLEAN, rxne : BOOLEAN, chside : BOOLEAN,
             ovr : BOOLEAN, fre : BOOLEAN, udr : BOOLEAN] :
        /\ (d = "Transmit" => ~s.rxne /\ ~s.ovr /\ ~s.chside)
        /\ (d = "Receive" => ~s.txe /\ ~s.udr)
        /\ (m = "Master" => ~s.fre /\ ~s.udr)
        /\ (m = "Slave" => ~s.chside) }

\* ------------------------------------------------------------------------
\* State

VARIABLES
    live,         \* a Transfer owns the peripheral (FALSE once released)
    ms, tr, std, fmt,   \* type parameters MS, TR, STD, FMT of the Transfer
    frame,        \* I2sTransfer::frame, <<left, right>>
    frame_state,  \* I2sTransfer::frame_state
    sync,         \* I2sTransfer::sync
    i2se,         \* I2SE bit of I2SCFGR: the peripheral is enabled
    call,         \* blocking call in progress: "none", "write_iter", "read_while"
    remaining,    \* frames the iterator of write_iter still yields
    panicked,     \* an unreachable!() arm was executed
    last,         \* what the last operation did (observation of the step)
    accepted,     \* frame taken by the last step that took one, or NoFrame
    emitted,      \* words written to the data register since that step
    sinceZero     \* master transmit: TXE steps taken since the cursor left 0

\* The register-level driver, its configuration and the peripheral
VARIABLES
    overflow_checks,  \* build profile: u32 overflow panics (else it wraps)
    dual,         \* the types at hand are DualI2sDriverConfig / DualI2sDriver
    cfg,          \* the configuration value being built, or NoConfig
    driver,       \* a driver owns the peripheral
    i2s_freq,     \* i2s_freq() of the peripheral the driver owns
    regs,         \* register blocks of the peripheral: main and ext core
    dlast         \* what the last configuration or driver operation did

tvars == <<live, ms, tr, std, fmt, frame, frame_state, sync, i2se, call,
           remaining, panicked, last, accepted, emitted, sinceZero>>

dvars == <<overflow_checks, dual, cfg, driver, i2s_freq, regs, dlast>>

\* The I2s handle of lib.rs around one Instance, and the sample codec
VARIABLES
    instance,     \* the caller holds the bare Instance (no I2s wraps it)
    handles,      \* number of live I2s values holding the Instance
    imode,        \* MODE of the I2s value: "Init", "Transmit" or "Receive"
    idata,        \* data format F of TransmitMode<F> / ReceiveMode<F>
    iframe,       \* I2s::frame_format
    iregs,        \* registers: I2SE bit, and whether a configuration is written
    icall,        \* blocking call in progress and its position
    ilast,        \* what the last call or poll of the handle did
    flast         \* the last conversion of the sample codec and its result

ivars == <<instance, handles, imode, idata, iframe, iregs, icall, ilast>>

fvars == <<flast>>

\* The configuration values of v12x/config.rs and the DualI2s handle of lib.rs
VARIABLES
    mlast,        \* the last call of a MasterConfig constructor and its result
    modes,        \* MODES of the DualI2s value: <<main, ext>>, or <<"Init">>
    formats,      \* data formats F of the two halves, <<main, ext>>
    frame_formats,  \* DualI2s::frame_formats, <<main, ext>>
    xlast         \* what the last call on the DualI2s value did

lvars == <<mlast, modes, formats, frame_formats, xlast>>

vars == <<tvars, dvars, ivars, fvars, lvars>>

\* Position of a frame_state in the frame: the word cursor
Cursor(fs) ==
    IF Data16(fmt)
    THEN CASE fs = "LeftMsb" -> 0 [] fs = "RightMsb" -> 1 [] OTHER -> 2
    ELSE CASE fs = "LeftMsb" -> 0 [] fs = "LeftLsb" -> 1
           [] fs = "RightMsb" -> 2 [] OTHER -> 3

\* Number of data register words of one frame
FrameLen == IF Data16(fmt) THEN 2 ELSE 4

\* The words of a frame in the order they go to the data register
FrameWords(f) ==
    IF Data16(fmt)
    THEN <<AsU16(f[1]), AsU16(f[2])>>
    ELSE <<HighWord(f[1]), LowWord(f[1]), HighWord(f[2]), LowWord(f[2])>>

IsPrefix(s, t) == Len(s) <= Len(t) /\ s = SubSeq(t, 1, Len(s))

\* ------------------------------------------------------------------------
\* Result of one call or loop iteration: the fields of the Transfer and the
\* enable bit after it, what it returned, and what it did to the hardware.
\*   ret : "Ok", "WouldBlock" (non-blocking calls); "Continue", "Return"
\*         (one iteration of a blocking loop); "Panic"; "None"
\*   ev  : register and pin accesses in program order, among "en", "dis",
\*         "sr" (status read), "drr", "drw" (data register), "ws", "rst"
\*   st  : the status read whose flags the step acted on, if any
\*   ws  : levels read from the WS pin, in order
\*   out : words written to the data register
\*   delivered : frame returned to the caller or passed to the predicate
\*   pulled : number of items taken from the iterator

Res0 ==
    [frame |-> frame, frame_state |-> frame_state, sync |-> sync,
     i2se |-> i2se, ret |-> "WouldBlock", ev |-> <<>>, st |-> <<>>,
     ws |-> <<>>, out |-> <<>>, delivered |-> NoFrame, pulled |-> 0]

Panic(r) == [r EXCEPT !.ret = "Panic"]

\* driver.enable() / driver.disable() / driver.status() and the data
\* register accesses, as they act on a result under construction
Enable(r) == [r EXCEPT !.i2se = TRUE, !.ev = @ \o <<"en">>]
Disable(r) == [r EXCEPT !.i2se = FALSE, !.ev = @ \o <<"dis">>]
ReadStatus(r, status) == [r EXCEPT !.st = <<status>>, !.ev = @ \o <<"sr">>]
ReadStatusAgain(r) == [r EXCEPT !.ev = @ \o <<"sr">>]
WriteDr(r, data) == [r EXCEPT !.out = @ \o <<data>>, !.ev = @ \o <<"drw">>]
ReadDr(r) == [r EXCEPT !.ev = @ \o <<"drr">>]

\* Variant of WsIsStart that takes the high level as the start level of
\* every standard
WsIsStart_AlwaysHigh(level) == level = TRUE

\* I2sTransfer::_ws_is_start for a level read from the WS pin
WsIsStart(level) ==
    IF WS_START_LEVEL(std) THEN level = TRUE ELSE level = FALSE

\* a read of the WS pin recorded in the result
ReadWs(r, level) == [r EXCEPT !.ws = @ \o <<level>>, !.ev = @ \o <<"ws">>]

\* Variant of ConfirmSync that trusts the level read before enabling
ConfirmSync_NoRecheck(r, level) == [ReadWs(r, level) EXCEPT !.sync = TRUE]

\* Tail of every slave synchronisation branch: the peripheral has just been
\* enabled, the WS line is read again; the Transfer is synchronised when the
\* line is still not at its start level, else the peripheral is disabled.
ConfirmSync(r, level) ==
    IF ~WsIsStart(level)
    THEN [ReadWs(r, level) EXCEPT !.sync = TRUE]
    ELSE Disable(ReadWs(r, level))

\* Slave transmit error check: `if status.fre() || status.udr()`
SlaveTransmitError(r, status) ==
    IF status.fre \/ status.udr
    THEN Disable([r EXCEPT !.sync = FALSE])
    ELSE r

\* Variant of SlaveReceiveError that also runs the flag clearing sequence
\* (data register, then status register)
SlaveReceiveError_Clearing(r, status) ==
    IF status.fre \/ status.ovr
    THEN Disable(ReadStatusAgain(ReadDr([r EXCEPT !.sync = FALSE])))
    ELSE r

\* Slave receive error check of read(): `if status.fre() || status.ovr()`
SlaveReceiveError(r, status) ==
    IF status.fre \/ status.ovr
    THEN Disable([r EXCEPT !.sync = FALSE])
    ELSE r

\* Slave receive error check of read_while(): the data register and the
\* status register are read before the peripheral is disabled
SlaveReceiveErrorClear(r, status) ==
    IF status.fre \/ status.ovr
    THEN Disable(ReadStatusAgain(ReadDr([r EXCEPT !.sync = FALSE])))
    ELSE r

\* Variant of MasterReceiveOverrun that treats the overrun as fatal
MasterReceiveOverrun_Fatal(r, status) ==
    IF status.ovr THEN Disable([r EXCEPT !.ret = "Overrun"]) ELSE r

\* Master receive overrun handling of the 16 bit read / read_while
MasterReceiveOverrun(r, status) ==
    IF status.ovr THEN ReadStatusAgain(ReadDr(r)) ELSE r

\* Master receive overrun handling of the 32 bit read / read_while
MasterReceiveOverrun32(r, status) ==
    IF status.ovr
    THEN [ReadStatusAgain(ReadDr(r)) EXCEPT !.frame_state = "LeftMsb"]
    ELSE r

\* ------------------------------------------------------------------------
\* Master transmit

\* Variant of MasterTransmit16_write whose first arm moves to LeftLsb, as the
\* 32 bit write does
MasterTransmit16_write_As32(frame_arg, status) ==
    LET r0 == ReadStatus(Enable(Res0), status) IN
    IF status.txe
    THEN CASE frame_state = "LeftMsb" ->
                [WriteDr([r0 EXCEPT !.frame = frame_arg], AsU16(frame_arg[1]))
                    EXCEPT !.frame_state = "LeftLsb", !.ret = "Ok"]
           [] frame_state = "RightMsb" ->
                [WriteDr(r0, AsU16(frame[2])) EXCEPT !.frame_state = "LeftMsb"]
           [] OTHER -> Panic(r0)
    ELSE r0

\* I2sTransfer<Master, Transmit, FMT: Data16>::write
MasterTransmit16_write(frame_arg, status) ==
    LET r0 == ReadStatus(Enable(Res0), status) IN
    IF status.txe
    THEN CASE frame_state = "LeftMsb" ->
                [WriteDr([r0 EXCEPT !.frame = frame_arg], AsU16(frame_arg[1]))
                    EXCEPT !.frame_state = "RightMsb", !.ret = "Ok"]
           [] frame_state = "RightMsb" ->
                [WriteDr(r0, AsU16(frame[2])) EXCEPT !.frame_state = "LeftMsb"]
           [] OTHER -> Panic(r0)
    ELSE r0

\* One iteration of the loop of
\* I2sTransfer<Master, Transmit, FMT: Data16>::write_iter; smpl is what
\* samples.next() returns when it is called (NoFrame for None)
MasterTransmit16_write_iter(smpl, status) ==
    LET r0 == ReadStatus([Res0 EXCEPT !.ret = "Continue"], status) IN
    IF status.txe
    THEN CASE frame_state = "LeftMsb" ->
                IF smpl = NoFrame
                THEN [r0 EXCEPT !.ret = "Return"]
                ELSE WriteDr([r0 EXCEPT !.frame = smpl, !.pulled = 1,
                                        !.frame_state = "RightMsb"],
                             AsU16(smpl[1]))
           [] frame_state = "RightMsb" ->
                WriteDr([r0 EXCEPT !.frame_state = "LeftMsb"], AsU16(frame[2]))
           [] OTHER -> Panic(r0)
    ELSE r0

\* I2sTransfer<Master, Transmit, Data32Channel32>::write
MasterTransmit32_write(frame_arg, status) ==
    LET r0 == ReadStatus(Enable(Res0), status) IN
    IF status.txe
    THEN CASE frame_state = "LeftMsb" ->
                [WriteDr([r0 EXCEPT !.frame = frame_arg], HighWord(frame_arg[1]))
                    EXCEPT !.frame_state = "LeftLsb", !.ret = "Ok"]
           [] frame_state = "LeftLsb" ->
                [WriteDr(r0, LowWord(frame[1])) EXCEPT !.frame_state = "RightMsb"]
           [] frame_state = "RightMsb" ->
                [WriteDr(r0, HighWord(frame[2])) EXCEPT !.frame_state = "RightLsb"]
           [] frame_state = "RightLsb" ->
                \* the source reads `frame.1`, the argument, not `self.frame.1`
                [WriteDr(r0, LowWord(frame_arg[2])) EXCEPT !.frame_state = "LeftMsb"]
    ELSE r0

\* variant of the iteration of the 32-bit write_iter that asks the iterator
\* before it looks at the position in the frame
MasterTransmit32_write_iter_BreaksAnywhere(smpl, status) ==
    LET r0 == ReadStatus([Res0 EXCEPT !.ret = "Continue"], status) IN
    IF status.txe
    THEN IF smpl = NoFrame THEN [r0 EXCEPT !.ret = "Return"]
         ELSE CASE frame_state = "LeftMsb" ->
                WriteDr([r0 EXCEPT !.frame = smpl, !.pulled = 1,
                                   !.frame_state = "LeftLsb"],
                        HighWord(smpl[1]))
           [] frame_state = "LeftLsb" ->
                WriteDr([r0 EXCEPT !.frame_state = "RightMsb"], LowWord(frame[1]))
           [] frame_state = "RightMsb" ->
                WriteDr([r0 EXCEPT !.frame_state = "RightLsb"], HighWord(frame[2]))
           [] frame_state = "RightLsb" ->
                WriteDr([r0 EXCEPT !.frame_state = "LeftMsb"], LowWord(frame[2]))
    ELSE r0

\* One iteration of the loop of
\* I2sTransfer<Master, Transmit, Data32Channel32>::write_iter
MasterTransmit32_write_iter(smpl, status) ==
    LET r0 == ReadStatus([Res0 EXCEPT !.ret = "Continue"], status) IN
    IF status.txe
    THEN CASE frame_state = "LeftMsb" ->
                IF smpl = NoFrame
                THEN [r0 EXCEPT !.ret = "Return"]
                ELSE WriteDr([r0 EXCEPT !.frame = smpl, !.pulled = 1,
                                        !.frame_state = "LeftLsb"],
                             HighWord(smpl[1]))
           [] frame_state = "LeftLsb" ->
                WriteDr([r0 EXCEPT !.frame_state = "RightMsb"], LowWord(frame[1]))
           [] frame_state = "RightMsb" ->
                WriteDr([r0 EXCEPT !.frame_state = "RightLsb"], HighWord(frame[2]))
           [] frame_state = "RightLsb" ->
                WriteDr([r0 EXCEPT !.frame_state = "LeftMsb"], LowWord(frame[2]))
    ELSE r0

\* ------------------------------------------------------------------------
\* Slave transmit

\* I2sTransfer<Slave, Transmit, STD, FMT: Data16>::write
SlaveTransmit16_write(frame_arg, status, ws1, ws2) ==
    IF sync
    THEN LET r0 == ReadStatus(Res0, status) IN
         IF status.txe
         THEN CASE frame_state = "LeftMsb" ->
                     \* `return Ok(())` precedes the error check
                     [WriteDr([r0 EXCEPT !.frame = frame_arg], AsU16(frame_arg[1]))
                         EXCEPT !.frame_state = "RightMsb", !.ret = "Ok"]
                [] frame_state = "RightMsb" ->
                     SlaveTransmitError(
                         [WriteDr(r0, AsU16(frame[2])) EXCEPT !.frame_state = "LeftMsb"],
                         status)
                [] OTHER -> Panic(r0)
         ELSE SlaveTransmitError(r0, status)
    ELSE LET r0 == ReadWs(Res0, ws1) IN
         IF ~WsIsStart(ws1)
         THEN [ConfirmSync(
                   Enable([WriteDr(r0, AsU16(frame[1])) EXCEPT !.frame_state = "RightMsb"]),
                   ws2)
                 EXCEPT !.ret = "Ok"]
         ELSE r0

\* One iteration of the loop of
\* I2sTransfer<Slave, Transmit, STD, FMT: Data16>::write_iter
SlaveTransmit16_write_iter(smpl, status, ws1, ws2) ==
    LET c0 == [Res0 EXCEPT !.ret = "Continue"] IN
    IF sync
    THEN LET r0 == ReadStatus(c0, status) IN
         IF status.txe
         THEN CASE frame_state = "LeftMsb" ->
                     IF smpl = NoFrame
                     THEN [r0 EXCEPT !.ret = "Return"]
                     ELSE SlaveTransmitError(
                              WriteDr([r0 EXCEPT !.frame = smpl, !.pulled = 1,
                                                 !.frame_state = "RightMsb"],
                                      AsU16(smpl[1])),
                              status)
                [] frame_state = "RightMsb" ->
                     SlaveTransmitError(
                         WriteDr([r0 EXCEPT !.frame_state = "LeftMsb"], AsU16(frame[2])),
                         status)
                [] OTHER -> Panic(r0)
         ELSE SlaveTransmitError(r0, status)
    ELSE LET r0 == ReadWs(c0, ws1) IN
         IF ~WsIsStart(ws1)
         THEN IF smpl = NoFrame
              THEN [r0 EXCEPT !.ret = "Return"]
              ELSE ConfirmSync(
                       Enable(WriteDr([r0 EXCEPT !.frame = smpl, !.pulled = 1,
                                                 !.frame_state = "RightMsb"],
                                      AsU16(smpl[1]))),
                       ws2)
         ELSE r0

\* I2sTransfer<Slave, Transmit, STD, Data32Channel32>::write
SlaveTransmit32_write(frame_arg, status, ws1, ws2) ==
    IF sync
    THEN LET r0 == ReadStatus(Res0, status) IN
         IF status.txe
         THEN CASE frame_state = "LeftMsb" ->
                     \* `return Ok(())` precedes the error check
                     [WriteDr([r0 EXCEPT !.frame = frame_arg], HighWord(frame_arg[1]))
                         EXCEPT !.frame_state = "LeftLsb", !.ret = "Ok"]
                [] frame_state = "LeftLsb" ->
                     SlaveTransmitError(
                         [WriteDr(r0, LowWord(frame[1])) EXCEPT !.frame_state = "RightMsb"],
                         status)
                [] frame_state = "RightMsb" ->
                     SlaveTransmitError(
                         [WriteDr(r0, HighWord(frame[2])) EXCEPT !.frame_state = "RightLsb"],
                         status)
                [] frame_state = "RightLsb" ->
                     \* the source reads `frame.1`, the argument
                     SlaveTransmitError(
                         [WriteDr(r0, LowWord(frame_arg[2])) EXCEPT !.frame_state = "LeftMsb"],
                         status)
         ELSE SlaveTransmitError(r0, status)
    ELSE LET r0 == ReadWs(Res0, ws1) IN
         IF ~WsIsStart(ws1)
         THEN [ConfirmSync(
                   Enable([WriteDr(r0, HighWord(frame[1])) EXCEPT !.frame_state = "LeftLsb"]),
                   ws2)
                 EXCEPT !.ret = "Ok"]
         ELSE r0

\* One iteration of the loop of
\* I2sTransfer<Slave, Transmit, STD, Data32Channel32>::write_iter
SlaveTransmit32_write_iter(smpl, status, ws1, ws2) ==
    LET c0 == [Res0 EXCEPT !.ret = "Continue"] IN
    IF sync
    THEN LET r0 == ReadStatus(c0, status) IN
         IF status.txe
         THEN CASE frame_state = "LeftMsb" ->
                     IF smpl = NoFrame
                     THEN [r0 EXCEPT !.ret = "Return"]
                     ELSE SlaveTransmitError(
                              WriteDr([r0 EXCEPT !.frame = smpl, !.pulled = 1,
                                                 !.frame_state = "LeftLsb"],
                                      HighWord(smpl[1])),
                              status)
                [] frame_state = "LeftLsb" ->
                     SlaveTransmitError(
                         WriteDr([r0 EXCEPT !.frame_state = "RightMsb"], LowWord(frame[1])),
                         status)
                [] frame_state = "RightMsb" ->
                     SlaveTransmitError(
                         WriteDr([r0 EXCEPT !.frame_state = "RightLsb"], HighWord(frame[2])),
                         status)
                [] frame_state = "RightLsb" ->
                     SlaveTransmitError(
                         WriteDr([r0 EXCEPT !.frame_state = "LeftMsb"], LowWord(frame[2])),
                         status)
         ELSE SlaveTransmitError(r0, status)
    ELSE LET r0 == ReadWs(c0, ws1) IN
         IF ~WsIsStart(ws1)
         THEN IF smpl = NoFrame
              THEN [r0 EXCEPT !.ret = "Return"]
              ELSE ConfirmSync(
                       Enable(WriteDr([r0 EXCEPT !.frame = smpl, !.pulled = 1,
                                                 !.frame_state = "LeftLsb"],
                                      HighWord(smpl[1]))),
                       ws2)
         ELSE r0

\* ------------------------------------------------------------------------
\* Master receive.  data is the value the data register returns when the
\* step reads it, pred what the predicate of read_while returns.

\* I2sTransfer<Master, Receive, STD, FMT: Data16>::read
MasterReceive16_read(status, data) ==
    LET r0 == ReadStatus(Enable(Res0), status) IN
    IF status.rxne
    THEN IF ~status.chside
         THEN MasterReceiveOverrun(
                  [ReadDr(r0) EXCEPT !.frame[1] = AsI16(data),
                                     !.frame_state = "RightMsb"],
                  status)
         ELSE [ReadDr(r0) EXCEPT !.frame[2] = AsI16(data),
                                 !.frame_state = "LeftMsb",
                                 !.ret = "Ok",
                                 !.delivered = <<frame[1], AsI16(data)>>]
    ELSE MasterReceiveOverrun(r0, status)

\* variant of the iteration of the 16-bit read_while that does not ask the
\* predicate
MasterReceive16_read_while_KeepsGoing(status, data, pred) ==
    LET r0 == ReadStatus([Res0 EXCEPT !.ret = "Continue"], status) IN
    IF status.rxne
    THEN IF ~status.chside
         THEN MasterReceiveOverrun(
                  [ReadDr(r0) EXCEPT !.frame[1] = AsI16(data),
                                     !.frame_state = "RightMsb"],
                  status)
         ELSE MasterReceiveOverrun(
                  [ReadDr(r0) EXCEPT !.frame[2] = AsI16(data),
                                     !.frame_state = "LeftMsb",
                                     !.delivered = <<frame[1], AsI16(data)>>],
                  status)
    ELSE MasterReceiveOverrun(r0, status)

\* One iteration of the loop of
\* I2sTransfer<Master, Receive, STD, FMT: Data16>::read_while
MasterReceive16_read_while(status, data, pred) ==
    LET r0 == ReadStatus([Res0 EXCEPT !.ret = "Continue"], status) IN
    IF status.rxne
    THEN IF ~status.chside
         THEN MasterReceiveOverrun(
                  [ReadDr(r0) EXCEPT !.frame[1] = AsI16(data),
                                     !.frame_state = "RightMsb"],
                  status)
         ELSE LET r1 == [ReadDr(r0) EXCEPT !.frame[2] = AsI16(data),
                                           !.frame_state = "LeftMsb",
                                           !.delivered = <<frame[1], AsI16(data)>>]
              IN IF ~pred
                 THEN [r1 EXCEPT !.ret = "Return"]
                 ELSE MasterReceiveOverrun(r1, status)
    ELSE MasterReceiveOverrun(r0, status)

\* The match on (frame_state, chside) of the 32 bit master receive, applied
\* to a result whose data register read is done; the (RightLsb, Right) arm
\* completes the frame
MasterReceive32_match(r, status, data) ==
    CASE frame_state = "LeftMsb" /\ ~status.chside ->
            [r EXCEPT !.frame[1] = ShiftHigh(data), !.frame_state = "LeftLsb"]
      [] frame_state = "LeftLsb" /\ ~status.chside ->
            [r EXCEPT !.frame[1] = OrLow(frame[1], data), !.frame_state = "RightMsb"]
      [] frame_state = "RightMsb" /\ status.chside ->
            [r EXCEPT !.frame[2] = ShiftHigh(data), !.frame_state = "RightLsb"]
      [] frame_state = "RightLsb" /\ status.chside ->
            [r EXCEPT !.frame[2] = OrLow(frame[2], data), !.frame_state = "LeftMsb",
                      !.delivered = <<frame[1], OrLow(frame[2], data)>>]
      [] OTHER -> [r EXCEPT !.frame_state = "LeftMsb"]

\* I2sTransfer<Master, Receive, STD, Data32Channel32>::read
\* (the overrun check is inside the `if status.rxne()` block)
MasterReceive32_read(status, data) ==
    LET r0 == ReadStatus(Enable(Res0), status) IN
    IF status.rxne
    THEN LET r1 == MasterReceive32_match(ReadDr(r0), status, data) IN
         IF r1.delivered # NoFrame
         THEN [r1 EXCEPT !.ret = "Ok"]
         ELSE MasterReceiveOverrun32(r1, status)
    ELSE r0

\* One iteration of the loop of
\* I2sTransfer<Master, Receive, STD, Data32Channel32>::read_while
MasterReceive32_read_while(status, data, pred) ==
    LET r0 == ReadStatus([Res0 EXCEPT !.ret = "Continue"], status) IN
    IF status.rxne
    THEN LET r1 == MasterReceive32_match(ReadDr(r0), status, data) IN
         IF r1.delivered # NoFrame /\ ~pred
         THEN [r1 EXCEPT !.ret = "Return"]
         ELSE MasterReceiveOverrun32(r1, status)
    ELSE MasterReceiveOverrun32(r0, status)

\* ------------------------------------------------------------------------
\* Slave receive

\* I2sTransfer<Slave, Receive, STD, FMT: Data16>::read
SlaveReceive16_read(status, data, ws1, ws2) ==
    IF sync
    THEN LET r0 == ReadStatus(Res0, status) IN
         IF status.rxne
         THEN CASE frame_state = "LeftMsb" ->
                     SlaveReceiveError(
                         [ReadDr(r0) EXCEPT !.frame[1] = AsI16(data),
                                            !.frame_state = "RightMsb"],
                         status)
                [] frame_state = "RightMsb" ->
                     \* `return Ok(self.frame)` precedes the error check
                     [ReadDr(r0) EXCEPT !.frame[2] = AsI16(data),
                                        !.frame_state = "LeftMsb",
                                        !.ret = "Ok",
                                        !.delivered = <<frame[1], AsI16(data)>>]
                [] OTHER -> Panic(ReadDr(r0))
         ELSE SlaveReceiveError(r0, status)
    ELSE \* `if !self.sync { disable(); frame_state = RightMsb }`
         LET r0 == ReadWs([Disable(Res0) EXCEPT !.frame_state = "RightMsb"], ws1) IN
         IF ~WsIsStart(ws1)
         THEN ConfirmSync(ReadStatusAgain(ReadDr(Enable(r0))), ws2)
         ELSE r0

\* One iteration of the loop of
\* I2sTransfer<Slave, Receive, STD, FMT: Data16>::read_while
SlaveReceive16_read_while(status, data, pred, ws1, ws2) ==
    LET c0 == [Res0 EXCEPT !.ret = "Continue"] IN
    IF sync
    THEN LET r0 == ReadStatus(c0, status) IN
         IF status.rxne
         THEN CASE frame_state = "LeftMsb" ->
                     SlaveReceiveErrorClear(
                         [ReadDr(r0) EXCEPT !.frame[1] = AsI16(data),
                                            !.frame_state = "RightMsb"],
                         status)
                [] frame_state = "RightMsb" ->
                     LET r1 == [ReadDr(r0) EXCEPT !.frame[2] = AsI16(data),
                                                  !.frame_state = "LeftMsb",
                                                  !.delivered = <<frame[1], AsI16(data)>>]
                     IN IF ~pred
                        THEN [r1 EXCEPT !.ret = "Return"]
                        ELSE SlaveReceiveErrorClear(r1, status)
                [] OTHER -> Panic(ReadDr(r0))
         ELSE SlaveReceiveErrorClear(r0, status)
    ELSE LET r0 == ReadWs(c0, ws1) IN
         IF ~WsIsStart(ws1)
         THEN ConfirmSync(Enable([r0 EXCEPT !.frame_state = "LeftMsb"]), ws2)
         ELSE r0

\* The match on frame_state of the 32 bit slave receive, applied to a result
\* whose data register read is done
SlaveReceive32_match(r, data) ==
    CASE frame_state = "LeftMsb" ->
            [r EXCEPT !.frame[1] = ShiftHigh(data), !.frame_state = "LeftLsb"]
      [] frame_state = "LeftLsb" ->
            [r EXCEPT !.frame[1] = OrLow(frame[1], data), !.frame_state = "RightMsb"]
      [] frame_state = "RightMsb" ->
            [r EXCEPT !.frame[2] = ShiftHigh(data), !.frame_state = "RightLsb"]
      [] frame_state = "RightLsb" ->
            [r EXCEPT !.frame[2] = OrLow(frame[2], data), !.frame_state = "LeftMsb",
                      !.delivered = <<frame[1], OrLow(frame[2], data)>>]

\* I2sTransfer<Slave, Receive, STD, Data32Channel32>::read
SlaveReceive32_read(status, data, ws1, ws2) ==
    IF sync
    THEN LET r0 == ReadStatus(Res0, status) IN
         IF status.rxne
         THEN LET r1 == SlaveReceive32_match(ReadDr(r0), data) IN
              IF r1.delivered # NoFrame
              THEN \* `return Ok(self.frame)` precedes the error check
                   [r1 EXCEPT !.ret = "Ok"]
              ELSE SlaveReceiveError(r1, status)
         ELSE SlaveReceiveError(r0, status)
    ELSE LET r0 == ReadWs([Disable(Res0) EXCEPT !.frame_state = "RightMsb"], ws1) IN
         IF ~WsIsStart(ws1)
         THEN ConfirmSync(ReadStatusAgain(ReadDr(Enable(r0))), ws2)
         ELSE r0

\* One iteration of the loop of
\* I2sTransfer<Slave, Receive, STD, Data32Channel32>::read_while
SlaveReceive32_read_while(status, data, pred, ws1, ws2) ==
    LET c0 == [Res0 EXCEPT !.ret = "Continue"] IN
    IF sync
    THEN LET r0 == ReadStatus(c0, status) IN
         IF status.rxne
         THEN LET r1 == SlaveReceive32_match(ReadDr(r0), data) IN
              IF r1.delivered # NoFrame /\ ~pred
              THEN [r1 EXCEPT !.ret = "Return"]
              ELSE SlaveReceiveErrorClear(r1, status)
         ELSE SlaveReceiveErrorClear(r0, status)
    ELSE LET r0 == ReadWs(c0, ws1) IN
         IF ~WsIsStart(ws1)
         THEN ConfirmSync(Enable([r0 EXCEPT !.frame_state = "LeftMsb"]), ws2)
         ELSE r0

\* ========================================================================
\* Register-level driver and its configuration (src/src/driver.rs)

\* ------------------------------------------------------------------------
\* u32 arithmetic.  A u32 (and the exact result of an operation on u32
\* values, before it is reduced to 32 bits) is a pair <<h, l>> standing for
\* h * 65536 + l, with l in 0..65535.

ToU32(x) == <<x \div 65536, x % 65536>>

Norm(h, l) == <<h + (l \div 65536), l % 65536>>

\* the value is representable in 32 bits
Fits32(a) == a[1] < 65536

\* reduction modulo 2^32
Wrap32(a) == <<a[1] % 65536, a[2]>>

WLe(a, b) == a[1] < b[1] \/ (a[1] = b[1] /\ a[2] <= b[2])

WLt(a, b) == a[1] < b[1] \/ (a[1] = b[1] /\ a[2] < b[2])

WAdd(a, b) == Norm(a[1] + b[1], a[2] + b[2])

\* a - b for b <= a
WSub(a, b) ==
    IF a[2] >= b[2]
    THEN <<a[1] - b[1], a[2] - b[2]>>
    ELSE <<a[1] - b[1] - 1, a[2] + 65536 - b[2]>>

\* a * k for a factor k below 2^15
WMul(a, k) == Norm(a[1] * k + ((a[2] * k) \div 65536), (a[2] * k) % 65536)

\* `d >> 1`
WShr1(a) == <<a[1] \div 2, (a[2] \div 2) + 32768 * (a[1] % 2)>>

\* the number a, for a below 2^31
Val(a) == a[1] * 65536 + a[2]

\* quotient and remainder of 2 * m + b by dv, from those of m by dv
PutBack(q0, r0, dv, b) ==
    IF r0 >= dv - r0 - b
    THEN [quot |-> WAdd(WAdd(ToU32(q0), ToU32(q0)), <<0, 1>>),
          rem |-> ToU32(r0 - (dv - r0) + b)]
    ELSE [quot |-> WAdd(ToU32(q0), ToU32(q0)), rem |-> ToU32(2 * r0 + b)]

\* quotient and remainder of the number 2 * m + b by the number dv
HalvedDivMod(m, b, dv) == PutBack(m \div dv, m % dv, dv, b)

\* quotient and remainder of the u32 n by d > 0: n is halved so that the
\* division is one of numbers below 2^31, and the dropped bit is put back
WDivMod(n, d) ==
    IF d[1] >= 32768
    THEN IF WLe(d, n) THEN [quot |-> <<0, 1>>, rem |-> WSub(n, d)]
         ELSE [quot |-> <<0, 0>>, rem |-> n]
    ELSE HalvedDivMod(Val(WShr1(n)), n[2] % 2, Val(d))

\* `n / d` and `n % d` on u32, d > 0
WDiv(n, d) == WDivMod(n, d).quot

WRem(n, d) == WDivMod(n, d).rem

\* `a - b` as a non-negative distance
WAbsDiff(a, b) == IF WLe(b, a) THEN WSub(a, b) ELSE WSub(b, a)

\* ------------------------------------------------------------------------
\* Configuration values (I2sDriverConfig, DualI2sDriverConfig)

ClockPolarities == {"IdleLow", "IdleHigh"}

\* enum Frequency
Prescaler(odd, div) ==
    [kind |-> "Prescaler", odd |-> odd, div |-> div, freq |-> <<0, 0>>]

Request(freq) ==
    [kind |-> "Request", odd |-> FALSE, div |-> 0, freq |-> freq]

Require(freq) ==
    [kind |-> "Require", odd |-> FALSE, div |-> 0, freq |-> freq]

\* I2sDriverConfig::new_slave / DualI2sDriverConfig::new_slave.  A single
\* configuration has no ext_dir: the field keeps its initial value.
new_slave ==
    [slave_or_master |-> "Slave", transmit_or_receive |-> "Transmit",
     ext_dir |-> "Transmit", standard |-> "Philips",
     clock_polarity |-> "IdleLow", data_format |-> "Data16Channel16",
     master_clock |-> FALSE, frequency |-> Prescaler(FALSE, 2)]

\* I2sDriverConfig::new_master / DualI2sDriverConfig::new_master
new_master == [new_slave EXCEPT !.slave_or_master = "Master"]

\* the configuration value was moved into i2s_driver / dual_i2s_driver
NoConfig == [new_slave EXCEPT !.slave_or_master = "Moved"]

\* ------------------------------------------------------------------------
\* Prescaler calculation

\* the panics of the configuration code
Panics == {"overflow", "divide_by_zero", "frequency", "div_lt_2"}

\* Result of a u32 operation whose exact value is x: in a build with
\* overflow checks a value that does not fit panics, else it wraps
Checked(x) ==
    IF Fits32(x) THEN [panic |-> "none", v |-> x]
    ELSE IF overflow_checks THEN [panic |-> "overflow", v |-> <<0, 0>>]
    ELSE [panic |-> "none", v |-> Wrap32(x)]

\* fn _coef
coef(mclk, s, f) ==
    LET nb_chan == IF s \in {"Philips", "Msb", "Lsb"} THEN 2 ELSE 1 IN
    IF mclk THEN 128 * nb_chan
    ELSE IF f = "Data16Channel16" THEN 16 * nb_chan
    ELSE 32 * nb_chan

\* the division of div_round, given the checked sum `n + (d >> 1)`
DivideSum(sum, d) ==
    IF sum.panic # "none" THEN sum
    ELSE IF d = <<0, 0>> THEN [panic |-> "divide_by_zero", v |-> <<0, 0>>]
    ELSE [panic |-> "none", v |-> WDiv(sum.v, d)]

\* fn div_round: `(n + (d >> 1)) / d`
div_round(n, d) == DivideSum(Checked(WAdd(n, WShr1(d))), d)

\* bit 0 and bits 8..1 of a division in 4..511
Split(division) ==
    [panic |-> "none", odd |-> (division[2] % 2 = 1),
     div |-> division[2] \div 2]

\* a panic while the value of I2SPR is computed
Failed(p) == [panic |-> p, odd |-> FALSE, div |-> 0]

\* the `if division < 4 ... else if division > 511 ... else` of
\* _set_request_frequency on the result of div_round
ClampDivision(division) ==
    IF division.panic # "none" THEN Failed(division.panic)
    ELSE IF WLt(division.v, <<0, 4>>)
         THEN [panic |-> "none", odd |-> FALSE, div |-> 2]
    ELSE IF WLt(<<0, 511>>, division.v)
         THEN [panic |-> "none", odd |-> TRUE, div |-> 255]
    ELSE Split(division.v)

\* _set_request_frequency, given the checked product `coef * request_freq`
RequestWith(i2s_clock, prod) ==
    IF prod.panic # "none" THEN Failed(prod.panic)
    ELSE ClampDivision(div_round(i2s_clock, prod.v))

\* fn _set_request_frequency: the (odd, div) handed to _set_prescaler
set_request_frequency(i2s_clock, request_freq, mclk, s, f) ==
    RequestWith(i2s_clock, Checked(WMul(request_freq, coef(mclk, s, f))))

\* the test of _set_require_frequency on `i2s_clock / (coef * request_freq)`
\* and `i2s_clock % (coef * request_freq)`
ExactDivision(dm) ==
    IF dm.rem = <<0, 0>> /\ WLe(<<0, 4>>, dm.quot) /\ WLe(dm.quot, <<0, 511>>)
    THEN Split(dm.quot)
    ELSE Failed("frequency")

\* _set_require_frequency, given the checked product `coef * request_freq`
RequireWith(i2s_clock, prod) ==
    IF prod.panic # "none" THEN Failed(prod.panic)
    ELSE IF prod.v = <<0, 0>> THEN Failed("divide_by_zero")
    ELSE ExactDivision(WDivMod(i2s_clock, prod.v))

\* fn _set_require_frequency
set_require_frequency(i2s_clock, request_freq, mclk, s, f) ==
    RequireWith(i2s_clock, Checked(WMul(request_freq, coef(mclk, s, f))))

\* the `match self.frequency` of i2s_driver / dual_i2s_driver
set_frequency(c, i2s_clock) ==
    CASE c.frequency.kind = "Prescaler" ->
           [panic |-> "none", odd |-> c.frequency.odd, div |-> c.frequency.div]
      [] c.frequency.kind = "Request" ->
           set_request_frequency(i2s_clock, c.frequency.freq, c.master_clock,
                                 c.standard, c.data_format)
      [] OTHER ->
           set_require_frequency(i2s_clock, c.frequency.freq, c.master_clock,
                                 c.standard, c.data_format)

\* ------------------------------------------------------------------------
\* Registers of one SPI/I2S core

Cr2Reset ==
    [txeie |-> FALSE, rxneie |-> FALSE, errie |-> FALSE,
     txdmaen |-> FALSE, rxdmaen |-> FALSE]

I2scfgrReset ==
    [i2smod |-> FALSE, i2se |-> FALSE, i2scfg |-> "slave_tx",
     i2sstd |-> "philips", pcmsync |-> "short", ckpol |-> FALSE,
     datlen |-> 16, chlen |-> 16]

I2sprReset == [mckoe |-> FALSE, odd |-> FALSE, i2sdiv |-> 2]

\* the register block after a bus reset: SR holds TXE only, DR is empty
ResetBlock ==
    [cr1 |-> 0, cr2 |-> Cr2Reset, i2scfgr |-> I2scfgrReset,
     i2spr |-> I2sprReset, sr |-> 2, dr |-> 0]

ResetRegs == [main |-> ResetBlock, ext |-> ResetBlock]

Parts == {"main", "ext"}

\* I2sPeripheral::rcc_reset / DualI2sPeripheral::rcc_reset: the bus reset of
\* the peripheral puts every register of its cores at its reset value
rcc_reset(r) == ResetRegs

\* the value `i2scfgr.write(|w| ...)` of i2s_driver / dual_i2s_driver builds
\* from the reset value, for the main part or the ext part
I2scfgrValue(c, part) ==
    [I2scfgrReset EXCEPT
       !.i2smod = TRUE,
       !.i2scfg =
          IF part = "main"
          THEN CASE c.slave_or_master = "Slave"
                    /\ c.transmit_or_receive = "Transmit" -> "slave_tx"
                 [] c.slave_or_master = "Slave"
                    /\ c.transmit_or_receive = "Receive" -> "slave_rx"
                 [] c.slave_or_master = "Master"
                    /\ c.transmit_or_receive = "Transmit" -> "master_tx"
                 [] OTHER -> "master_rx"
          ELSE IF c.ext_dir = "Transmit" THEN "slave_tx" ELSE "slave_rx",
       !.i2sstd =
          CASE c.standard = "Philips" -> "philips"
            [] c.standard = "Msb" -> "msb"
            [] c.standard = "Lsb" -> "lsb"
            [] OTHER -> "pcm",
       !.pcmsync = IF c.standard = "PcmLongSync" THEN "long" ELSE "short",
       !.datlen =
          CASE c.data_format \in {"Data16Channel16", "Data16Channel32"} -> 16
            [] c.data_format = "Data24Channel32" -> 24
            [] OTHER -> 32,
       !.chlen = IF c.data_format = "Data16Channel16" THEN 16 ELSE 32]

\* `i2spr.write(|w| ...)` on the block b, with the result p of the prescaler
\* calculation of its closure: a panic in the closure leaves I2SPR as it was
I2sprWrite(b, c, p) ==
    IF p.panic = "none"
    THEN [panic |-> "none",
          block |-> [b EXCEPT !.i2spr = [mckoe |-> c.master_clock,
                                        odd |-> p.odd, i2sdiv |-> p.div]]]
    ELSE [panic |-> p.panic, block |-> b]

\* Variant of CoreSetup without `cr2.reset()`
CoreSetup_KeepsCr2(block, c, part, i2s_clock) ==
    I2sprWrite([block EXCEPT !.cr1 = 0, !.i2scfgr = I2scfgrValue(c, part)],
               c, set_frequency(c, i2s_clock))

\* The setup of one core by i2s_driver / dual_i2s_driver: cr1.reset(),
\* cr2.reset(), i2scfgr.write, i2spr.write
CoreSetup(block, c, part, i2s_clock) ==
    I2sprWrite([block EXCEPT !.cr1 = 0, !.cr2 = Cr2Reset,
                             !.i2scfgr = I2scfgrValue(c, part)],
               c, set_frequency(c, i2s_clock))

\* the registers r with the main part as its setup m left it
MainDone(r, m) == [panic |-> m.panic, regs |-> [r EXCEPT !.main = m.block]]

\* the registers r with the ext part as its setup e left it
ExtDone(r, e) == [panic |-> e.panic, regs |-> [r EXCEPT !.ext = e.block]]

\* I2sDriverConfig::i2s_driver on the registers r
i2s_driver_setup(r, c, i2s_clock) ==
    MainDone(r, CoreSetup(r.main, c, "main", i2s_clock))

\* the ext part of dual_i2s_driver, after the main part gave m
ExtSetup(m, c, i2s_clock) ==
    IF m.panic # "none" THEN m
    ELSE ExtDone(m.regs, CoreSetup(m.regs.ext, c, "ext", i2s_clock))

\* DualI2sDriverConfig::dual_i2s_driver on the registers r: the main part,
\* then the ext part
dual_i2s_driver_setup(r, c, i2s_clock) ==
    ExtSetup(MainDone(r, CoreSetup(r.main, c, "main", i2s_clock)),
             c, i2s_clock)

\* fn _sample_rate on the registers of a core
sample_rate_of(block, i2s_clock) ==
    LET nb_chan == IF block.i2scfgr.i2sstd = "pcm" THEN 1 ELSE 2
        channel_length == block.i2scfgr.chlen
        division == 2 * block.i2spr.i2sdiv + (IF block.i2spr.odd THEN 1 ELSE 0)
    IN IF block.i2spr.mckoe
       THEN WDiv(i2s_clock, ToU32(128 * nb_chan * division))
       ELSE WDiv(i2s_clock, ToU32(channel_length * nb_chan * division))

\* Variant of reset_clocks_regs that does not write I2SPR back
reset_clocks_regs_NoI2spr(r) ==
    [rcc_reset(r) EXCEPT !.main.cr2 = r.main.cr2,
                         !.main.i2scfgr = r.main.i2scfgr]

\* Variant of dual_reset_clocks_regs that restores the main part only
dual_reset_clocks_regs_MainOnly(r) ==
    [rcc_reset(r) EXCEPT !.main.cr2 = r.main.cr2,
                         !.main.i2spr = r.main.i2spr,
                         !.main.i2scfgr = r.main.i2scfgr]

\* I2sDriver<Master>::reset_clocks on the registers r
reset_clocks_regs(r) ==
    LET cr2 == r.main.cr2
        i2scfgr == r.main.i2scfgr
        i2spr == r.main.i2spr
        r1 == rcc_reset(r)
    IN [r1 EXCEPT !.main.cr2 = cr2, !.main.i2spr = i2spr,
                  !.main.i2scfgr = i2scfgr]

\* DualI2sDriver<Master>::reset_clocks on the registers r
dual_reset_clocks_regs(r) ==
    LET main_cr2 == r.main.cr2
        main_i2scfgr == r.main.i2scfgr
        main_i2spr == r.main.i2spr
        ext_cr2 == r.ext.cr2
        ext_i2scfgr == r.ext.i2scfgr
        ext_i2spr == r.ext.i2spr
        r1 == rcc_reset(r)
    IN [r1 EXCEPT !.ext.cr2 = ext_cr2, !.ext.i2spr = ext_i2spr,
                  !.ext.i2scfgr = ext_i2scfgr,
                  !.main.cr2 = main_cr2, !.main.i2spr = main_i2spr,
                  !.main.i2scfgr = main_i2scfgr]

\* ------------------------------------------------------------------------
\* Inputs of the configuration and driver operations

\* i2s_freq() of the peripherals handed to i2s_driver / dual_i2s_driver
ClockValues == {ToU32(142400), ToU32(6144000), <<65535, 65535>>}

\* sample rates passed to request_frequency / require_frequency
RateValues ==
    {<<0, 0>>, <<0, 1>>, ToU32(1000), ToU32(48000), <<2048, 1000>>,
     <<65535, 65535>>}

\* dividers passed to prescaler
PrescalerDivs == {1, 2, 255}

\* configurations handed to the driver when the builder is not followed:
\* values the builder methods produce from new_slave() and new_master()
DriverConfigs ==
    {new_slave,
     [new_slave EXCEPT !.transmit_or_receive = "Receive",
                       !.standard = "PcmLongSync",
                       !.ext_dir = IF dual THEN "Receive" ELSE "Transmit"],
     [new_master EXCEPT !.transmit_or_receive = "Receive",
                        !.data_format = "Data32Channel32",
                        !.master_clock = TRUE,
                        !.frequency = Request(ToU32(48000))],
     [new_master EXCEPT !.frequency = Require(ToU32(1000))]}

\* What the last configuration or driver operation did: its name, the panic
\* that ended it, the configuration it consumed, the registers before it
\* and the number of bus resets it issued
NoOp(op) ==
    [op |-> op, panic |-> "none", cfg |-> NoConfig, pre |-> ResetRegs,
     resets |-> 0]

\* no configuration and no driver exist (the Transfer is modelled alone)
DriverUnused ==
    /\ overflow_checks = FALSE
    /\ dual = FALSE
    /\ cfg = NoConfig
    /\ driver = FALSE
    /\ i2s_freq = <<0, 0>>
    /\ regs = ResetRegs
    /\ dlast = NoOp("none")

\* ------------------------------------------------------------------------
\* Sample codec of the I2s handle: how a sample becomes data register words
\* and back.  An i32 sample is a signed integer, a u32 intermediate value is
\* a pair of limbs <<high 16 bits, low 16 bits>>, a word is in 0..65535.

\* `sample as u32` : the same 32 bits read as unsigned
AsU32(x) == <<(x \div 65536) % 65536, x % 65536>>

\* `value as i32` : the same 32 bits read as two's complement
AsI32(u) == AsI16(u[1]) * 65536 + u[2]

FrameFormats == {"PhilipsI2s", "MsbJustified", "LsbJustified", "Pcm"}

I2sDataFormats ==
    {"Data16Frame16", "Data16Frame32", "Data24Frame32", "Data32Frame32"}

\* variant of sign_extend_24_to_32 that returns its argument
sign_extend_24_to_32_Identity(value) == value

\* sign_extend_24_to_32: bit 23 is bit 7 of the high limb
sign_extend_24_to_32(value) ==
    IF (value[1] \div 128) % 2 = 1
    THEN <<BitOr(65280, value[1], 16), value[2]>>
    ELSE value

\* build_sample_msb_justified: read1 << 8 | (read2 & 0xff00) >> 8
build_sample_msb_justified(values) ==
    LET read1 == values[1]
        read2 == values[2] - (values[2] % 256)
        sample == <<read1 \div 256,
                    BitOr((read1 % 256) * 256, read2 \div 256, 16)>>
    IN AsI32(sign_extend_24_to_32(sample))

\* variant of build_sample_lsb_justified that keeps the high byte of read 1
build_sample_lsb_justified_NoMask(values) ==
    AsI32(sign_extend_24_to_32(<<values[1], values[2]>>))

\* build_sample_lsb_justified: (read1 & 0x00ff) << 16 | read2
build_sample_lsb_justified(values) ==
    LET read1 == values[1] % 256
        read2 == values[2]
        sample == <<read1, read2>>
    IN AsI32(sign_extend_24_to_32(sample))

\* split_sample_msb_justified:
\* write1 = (sample >> 8) as u16, write2 = ((sample & 0xff) << 8) as u16
split_sample_msb_justified(sample) ==
    LET u == AsU32(sample)
        write1 == (u[1] % 256) * 256 + (u[2] \div 256)
        write2 == (u[2] % 256) * 256
    IN <<write1, write2>>

\* variant of split_sample_lsb_justified that keeps bits 31..24 in write 1
split_sample_lsb_justified_NoMask(sample) ==
    LET u == AsU32(sample) IN <<u[1], u[2]>>

\* split_sample_lsb_justified:
\* write1 = ((sample >> 16) & 0xff) as u16, write2 = sample as u16
split_sample_lsb_justified(sample) ==
    LET u == AsU32(sample)
        write1 == u[1] % 256
        write2 == u[2]
    IN <<write1, write2>>

\* Data24Frame32::write_sample: the two values handed to write_two_steps
Data24Frame32_write_sample(format, sample) ==
    IF format = "LsbJustified"
    THEN split_sample_lsb_justified(sample)
    ELSE split_sample_msb_justified(sample)

\* Data24Frame32::read_sample of the two values read_two_steps returned
Data24Frame32_read_sample(format, values) ==
    IF format = "LsbJustified"
    THEN build_sample_lsb_justified(values)
    ELSE build_sample_msb_justified(values)

\* Data32Frame32::write_sample:
\* msbs = ((sample as u32) >> 16) as u16, lsbs = sample as u16
Data32Frame32_write_sample(sample) ==
    LET u == AsU32(sample) IN <<u[1], u[2]>>

\* variant of Data32Frame32::read_sample that sign-extends the low word
Data32Frame32_read_sample_SignExtended(values) ==
    AsI32(<<IF values[2] >= 32768 THEN 65535 ELSE values[1], values[2]>>)

\* Data32Frame32::read_sample: ((msbs as u32) << 16 | lsbs as u32) as i32
Data32Frame32_read_sample(values) == AsI32(<<values[1], values[2]>>)

\* Data16Frame16 / Data16Frame32 ::write_sample: one write of `sample as u16`
Data16_write_sample(sample) == <<AsU16(sample)>>

\* F::write_sample: the words of a sample in the order they are written
write_sample(data, format, sample) ==
    CASE data = "Data24Frame32" -> Data24Frame32_write_sample(format, sample)
      [] data = "Data32Frame32" -> Data32Frame32_write_sample(sample)
      [] OTHER -> Data16_write_sample(sample)

\* F::read_sample of the words read from the data register (two-word formats)
read_sample(data, format, values) ==
    IF data = "Data24Frame32"
    THEN Data24Frame32_read_sample(format, values)
    ELSE Data32Frame32_read_sample(values)

\* The data register words of the four arms of
\* I2sTransfer<Master, Transmit, Data32Channel32>::write_iter, in the order
\* of the frame states LeftMsb, LeftLsb, RightMsb, RightLsb
MasterTransmit32_words(f) ==
    <<HighWord(f[1]), LowWord(f[1]), HighWord(f[2]), LowWord(f[2])>>

\* The frame the four arms of I2sTransfer<Master, Receive, Data32Channel32>
\* ::read assemble from four data register words
MasterReceive32_frame(w) ==
    <<OrLow(ShiftHigh(w[1]), w[2]), OrLow(ShiftHigh(w[3]), w[4])>>

\* Inputs of the codec: every byte of a sample or word is one of these
Bytes == {0, 1, 127, 128, 255}

WordValues == {hi * 256 + lo : hi \in Bytes, lo \in Bytes}

SampleValues == {AsI32(<<h, l>>) : h \in WordValues, l \in WordValues}

\* right samples of the frames given to the 32 bit Transfer
RightValues == {AsI32(<<h, l>>) : h \in {0, 32768, 65535}, l \in {1, 65535}}

\* the last conversion: its name and format, the sample or frame given, the
\* words written or read, the sample or frame returned
NoCodec ==
    [op |-> "none", data |-> "Data16Frame16", format |-> "PhilipsI2s",
     sample |-> 0, words |-> <<>>, back |-> 0,
     frame |-> DefaultFrame, back_frame |-> DefaultFrame]

\* a sample to write, two words to read, a frame to transfer
GivenSample(d, ff, s) ==
    [NoCodec EXCEPT !.op = "sample", !.data = d, !.format = ff, !.sample = s]
GivenWords(d, ff, w) ==
    [NoCodec EXCEPT !.op = "words", !.data = d, !.format = ff, !.words = w]
GivenFrame(f) ==
    [NoCodec EXCEPT !.op = "frame", !.data = "Data32Frame32", !.frame = f]

\* the codec is not exercised
FormatUnused == flast = NoCodec

\* ------------------------------------------------------------------------
\* The I2s handle of lib.rs: one call or one poll of a blocking loop.
\* A result says what the call returned and did to the hardware:
\*   ret : "Ok", "WouldBlock", an error name, "None" (no return value);
\*         "Wait" (inside the busy-wait of write_two_steps), "Continue" /
\*         "Return" (one poll of a blocking loop)
\*   ev, st, out : as for the Transfer
\*   word : the data register value an error carries, if any
\*   pending : words of the sample not yet written

\* most samples a caller hands to try_write / try_write_iter per channel
MaxWords == 2

\* the i-th sample of left_words and of right_words
LeftWord(i) == i
RightWord(i) == 0 - i

\* samples given to transmit, words given to write_data_register
TransmitSamples == {1, -1}

\* A blocking call in progress: its name and position, the lengths of
\* left_words and right_words, pairs completed and which sample of the pair
\* is next, the start channel, the sample given to transmit, and what the
\* call did so far: error checks passed, samples written in full, words
\* written, whether the initial take_error found an underrun
NoCall ==
    [op |-> "none", pos |-> "none", nl |-> 0, nr |-> 0, k |-> 0, half |-> 1,
     start |-> "None", arg |-> 0, pending |-> <<>>, checks |-> 0,
     sent |-> <<>>, out |-> <<>>, discarded |-> FALSE]

\* what the last call or poll did: a result, the registers, the mode and
\* the position before it, the blocking call it belongs to as it stands
\* after it
NoI2sOp ==
    [op |-> "none", ret |-> "None", ev |-> <<>>, st |-> <<>>, out |-> <<>>,
     word |-> <<>>, pre |-> [i2se |-> FALSE, conf |-> FALSE],
     mode |-> "Init", at |-> "none", call |-> NoCall]

\* ------------------------------------------------------------------------
\* Configuration values of v12x/config.rs (MasterConfig, SlaveConfig)

\* const DIVISION_RANGE: Range<u16> = 4..512
DIVISION_RANGE == 4..511

\* fn is_valid_division, on a u32
is_valid_division(division) ==
    WLe(<<0, 4>>, division) /\ WLt(division, <<0, 512>>)

\* a constructor of MasterConfig panicked
NoMasterConfig(p) ==
    [panic |-> p, division |-> 0, data_format |-> "Data16Frame16",
     frame_format |-> "PhilipsI2s", polarity |-> "IdleLow",
     master_clock |-> FALSE]

\* MasterConfig::with_division, division a u16
with_division(division, data_format, frame_format, polarity, master_clock) ==
    IF division \notin DIVISION_RANGE THEN NoMasterConfig("division")
    ELSE [panic |-> "none", division |-> division,
          data_format |-> data_format, frame_format |-> frame_format,
          polarity |-> polarity, master_clock |-> master_clock]

\* `match F::CHLEN` of with_sample_rate: bits on the wire per sample
bits_per_sample(data_format) ==
    IF data_format = "Data16Frame16" THEN 16 ELSE 32

\* the master clock division of with_sample_rate
master_clock_division(data_format, master_clock) ==
    IF master_clock
    THEN IF data_format = "Data16Frame16" THEN 8 ELSE 4
    ELSE 1

\* a checked u32 product `x * k`, x itself the result of a checked operation
CheckedMul(x, k) == IF x.panic # "none" THEN x ELSE Checked(WMul(x.v, k))

\* `frequency_in / divisor` on u32, divisor the result of checked products
CheckedDiv(n, d) ==
    IF d.panic # "none" THEN d
    ELSE IF d.v = <<0, 0>> THEN [panic |-> "divide_by_zero", v |-> <<0, 0>>]
    ELSE [panic |-> "none", v |-> WDiv(n, d.v)]

\* `division.saturating_sub(1)` and `division.saturating_add(1)`
saturating_sub(a) == IF a = <<0, 0>> THEN a ELSE WSub(a, <<0, 1>>)

saturating_add(a) == IF a = <<65535, 65535>> THEN a ELSE WAdd(a, <<0, 1>>)

\* `a - b` on i32: a difference that does not fit panics in a build with
\* overflow checks and wraps otherwise
I32Sub(a, b) ==
    IF a >= 0 /\ b < 0 /\ a > 2147483647 + b
    THEN IF overflow_checks THEN [panic |-> "overflow", k |-> 0]
         ELSE [panic |-> "none",
               k |-> (a - 2147483647 - 1) + ((0 - 2147483647) - 1 - b)]
    ELSE IF a < 0 /\ b > 0 /\ a < ((0 - 2147483647) - 1) + b
    THEN IF overflow_checks THEN [panic |-> "overflow", k |-> 0]
         ELSE [panic |-> "none", k |-> (a + 2147483647 + 1) + (2147483647 - b + 1)]
    ELSE [panic |-> "none", k |-> a - b]

\* i32::abs: the absolute value of i32::MIN panics in a build with overflow
\* checks and is i32::MIN otherwise
I32Abs(d) ==
    IF d.panic # "none" THEN d
    ELSE IF d.k = (0 - 2147483647) - 1
    THEN IF overflow_checks THEN [panic |-> "overflow", k |-> 0] ELSE d
    ELSE [panic |-> "none", k |-> IF d.k < 0 THEN 0 - d.k ELSE d.k]

\* the key of min_by_key: the distance of the real sample rate of a valid
\* division to the wanted one, both cast to i32
SampleRateError(frequency_in, sample_rate, bits, mcd, possible_division) ==
    LET real_sample_rate ==
            WDiv(frequency_in, ToU32(bits * 2 * possible_division[2] * mcd))
    IN I32Abs(I32Sub(AsI32(real_sample_rate), AsI32(sample_rate)))

\* variant of ValidOptions that offers the quotient alone
ValidOptions_QuotientOnly(division) ==
    SelectSeq(<<division>>, is_valid_division)

\* the valid ones of the division options, in the order of the array
ValidOptions(division) ==
    SelectSeq(<<saturating_sub(division), division, saturating_add(division)>>,
              is_valid_division)

\* min_by_key over the valid options: the first one with the least key
RECURSIVE MinByKey(_, _)
MinByKey(options, keys) ==
    IF Len(options) = 1 THEN [o |-> options[1], k |-> keys[1]]
    ELSE LET rest == MinByKey(Tail(options), Tail(keys)) IN
         IF keys[1] <= rest.k THEN [o |-> options[1], k |-> keys[1]]
         ELSE rest

\* the choice of best_division among the valid options, given their keys
BestDivision(options, keys) ==
    IF options = <<>> THEN [panic |-> "no_division", division |-> 0]
    ELSE IF \E i \in 1..Len(keys) : keys[i].panic # "none"
    THEN [panic |-> "overflow", division |-> 0]
    ELSE [panic |-> "none",
          division |->
              MinByKey(options, [i \in 1..Len(keys) |-> keys[i].k]).o[2]]

\* with_sample_rate from the checked quotient `division` on
WithQuotient(frequency_in, sample_rate, bits, mcd, division) ==
    IF division.panic # "none" THEN [panic |-> division.panic, division |-> 0]
    ELSE LET options == ValidOptions(division.v) IN
         BestDivision(options,
                      [i \in 1..Len(options) |->
                          SampleRateError(frequency_in, sample_rate, bits, mcd,
                                    options[i])])

\* `let bit_rate = sample_rate * 2 * bits_per_sample` and
\* `let division = frequency_in / (bit_rate * master_clock_division)`
Quotient(frequency_in, sample_rate, data_format, master_clock) ==
    LET bits == bits_per_sample(data_format)
        mcd == master_clock_division(data_format, master_clock)
    IN CheckedDiv(frequency_in,
           CheckedMul(CheckedMul(CheckedMul(
               [panic |-> "none", v |-> sample_rate], 2), bits), mcd))

\* the MasterConfig of with_sample_rate, given the best division
WithBest(best, data_format, frame_format, polarity, master_clock) ==
    IF best.panic # "none" THEN NoMasterConfig(best.panic)
    ELSE with_division(best.division, data_format, frame_format, polarity,
                       master_clock)

\* MasterConfig::with_sample_rate
with_sample_rate(frequency_in, sample_rate, data_format, frame_format, polarity, master_clock) ==
    WithBest(WithQuotient(frequency_in, sample_rate,
                          bits_per_sample(data_format),
                          master_clock_division(data_format, master_clock),
                          Quotient(frequency_in, sample_rate, data_format,
                                   master_clock)),
             data_format, frame_format, polarity, master_clock)

\* SlaveConfig::new
SlaveConfig_new(data_format, frame_format, polarity) ==
    [data_format |-> data_format, frame_format |-> frame_format,
     polarity |-> polarity]

\* no constructor of MasterConfig was called
NoMasterCall ==
    [op |-> "none", frequency_in |-> <<0, 0>>, sample_rate |-> <<0, 0>>,
     arg |-> 0, quotient |-> [panic |-> "none", v |-> <<0, 0>>],
     ret |-> NoMasterConfig("none")]

\* no call was made on the DualI2s value
NoDualOp ==
    [op |-> "none", half |-> "none", ret |-> "None", used |-> "PhilipsI2s",
     given |-> "PhilipsI2s", sample |-> 0, words |-> <<>>,
     pre |-> <<"PhilipsI2s", "PhilipsI2s">>]

\* no configuration value and no DualI2s value exist
LibUnused ==
    /\ mlast = NoMasterCall
    /\ modes = <<>>
    /\ formats = <<"Data16Frame16", "Data16Frame16">>
    /\ frame_formats = <<"PhilipsI2s", "PhilipsI2s">>
    /\ xlast = NoDualOp


\* no Instance is wrapped (the other machines are modelled alone)
I2sUnused ==
    /\ instance = FALSE
    /\ handles = 0
    /\ imode = "Init"
    /\ idata = "Data16Frame16"
    /\ iframe = "PhilipsI2s"
    /\ iregs = [i2se |-> FALSE, conf |-> FALSE]
    /\ icall = NoCall
    /\ ilast = NoI2sOp

\* Content of the status register as a call sees it: a flag the call does
\* not test is left FALSE
Tested(flags) ==
    { s \in [txe : BOOLEAN, bsy : BOOLEAN, udr : BOOLEAN, chside : BOOLEAN,
             ovr : BOOLEAN, fre : BOOLEAN] :
        \A f \in (DOMAIN s) \ flags : ~s[f] }

DisableSr == Tested({"txe", "bsy"})
TransmitSr == Tested({"txe"})
ReadySr == Tested({"txe", "chside"})
UnderrunSr == Tested({"udr"})
ReceiveSr == Tested({"ovr", "fre"})

IRes0 ==
    [ret |-> "None", ev |-> <<>>, st |-> <<>>, out |-> <<>>,
     i2se |-> iregs.i2se, conf |-> iregs.conf, word |-> <<>>,
     pending |-> <<>>]

\* I2s::common_enable / I2s::common_disable
common_enable(r) == [r EXCEPT !.i2se = TRUE, !.ev = @ \o <<"en">>]
common_disable(r) == [r EXCEPT !.i2se = FALSE, !.ev = @ \o <<"dis">>]

\* I2s::reset_registers: cr1, cr2, i2scfgr (with I2SE) and i2spr at reset
reset_registers(r) ==
    [r EXCEPT !.i2se = FALSE, !.conf = FALSE, !.ev = @ \o <<"rst">>]

\* variant of the transmit-mode disable that does not test BSY
TransmitMode_disable_IgnoresBusy(r, sr) ==
    LET r1 == ReadStatus(r, sr) IN
    IF sr.txe
    THEN [common_disable(r1) EXCEPT !.ret = "Ok"]
    ELSE [r1 EXCEPT !.ret = "WouldBlock"]

\* I2s<I, TransmitMode<F>>::disable
TransmitMode_disable(r, sr) ==
    LET r1 == ReadStatus(r, sr) IN
    IF sr.txe /\ ~sr.bsy
    THEN [common_disable(r1) EXCEPT !.ret = "Ok"]
    ELSE [r1 EXCEPT !.ret = "WouldBlock"]

\* I2s<I, TransmitMode<F>>::deconfigure: one poll of
\* nb::block!(self.disable()) and, once it is Ok, reset_registers
TransmitMode_deconfigure(r, sr) ==
    LET d == TransmitMode_disable(r, sr) IN
    IF d.ret = "Ok"
    THEN [reset_registers(d) EXCEPT !.ret = "Return"]
    ELSE [d EXCEPT !.ret = "Continue"]

\* I2s<I, ReceiveMode<F>>::disable
ReceiveMode_disable(r) == common_disable(r)

\* I2s<I, ReceiveMode<F>>::deconfigure
ReceiveMode_deconfigure(r) ==
    [reset_registers(ReceiveMode_disable(r)) EXCEPT !.ret = "Return"]

\* I2s<I, TransmitMode<F>>::take_error
TransmitMode_take_error(r, sr) ==
    [ReadStatus(r, sr) EXCEPT !.ret = IF sr.udr THEN "Underrun" ELSE "Ok"]

\* variant of the receive-mode take_error that leaves the overrun flag set
ReceiveMode_take_error_NoClear(r, sr, dr) ==
    [ReadStatus(r, sr) EXCEPT
        !.ret = CASE sr.ovr /\ sr.fre -> "FrameAndOverrun"
                  [] sr.ovr -> "Overrun"
                  [] sr.fre -> "Frame"
                  [] OTHER -> "Ok",
        !.word = IF sr.ovr THEN <<dr>> ELSE <<>>]

\* I2s<I, ReceiveMode<F>>::take_error
ReceiveMode_take_error(r, sr, dr) ==
    LET r1 == ReadStatus(r, sr) IN
    IF sr.ovr
    THEN [ReadStatusAgain(ReadDr(r1)) EXCEPT
             !.ret = IF sr.fre THEN "FrameAndOverrun" ELSE "Overrun",
             !.word = <<dr>>]
    ELSE [r1 EXCEPT !.ret = IF sr.fre THEN "Frame" ELSE "Ok"]

\* I2s<I, TransmitMode<F>>::ready_to_transmit
ready_to_transmit(r, sr) ==
    [ReadStatus(r, sr) EXCEPT
        !.ret = IF sr.txe THEN (IF sr.chside THEN "Right" ELSE "Left")
                ELSE "None"]

\* variant of transmit that writes whatever TXE says
TransmitMode_transmit_Unguarded(r, sr, words) ==
    [WriteDr(ReadStatus(r, sr), words[1]) EXCEPT
        !.ret = IF Len(words) = 1 THEN "Ok" ELSE "Wait",
        !.pending = Tail(words)]

\* I2s<I, TransmitMode<F>>::transmit up to the first write of
\* F::write_sample: write_one_step is done with it, write_two_steps goes on
\* to its busy-wait with the second word pending
TransmitMode_transmit(r, sr, words) ==
    LET r1 == ReadStatus(r, sr) IN
    IF sr.txe
    THEN [WriteDr(r1, words[1]) EXCEPT
             !.ret = IF Len(words) = 1 THEN "Ok" ELSE "Wait",
             !.pending = Tail(words)]
    ELSE [r1 EXCEPT !.ret = "WouldBlock"]

\* write_two_steps: one iteration of
\* `while registers.sr.read().txe().is_not_empty() {}` and, when the loop
\* ends, the second write
write_two_steps(r, sr, pending) ==
    LET r1 == ReadStatus(r, sr) IN
    IF sr.txe
    THEN [WriteDr(r1, pending[1]) EXCEPT !.ret = "Ok"]
    ELSE [r1 EXCEPT !.ret = "Wait", !.pending = pending]

\* I2s<I, TransmitMode<F>>::write_data_register
write_data_register(r, sr, value) ==
    LET r1 == ReadStatus(r, sr) IN
    IF sr.txe
    THEN [WriteDr(r1, value) EXCEPT !.ret = "Ok"]
    ELSE [r1 EXCEPT !.ret = "WouldBlock"]

\* ------------------------------------------------------------------------
\* Actions

Usable == live /\ ~panicked
Idle == Usable /\ call = "none"

\* The observation of a step with result r
Observe(op, arg, r) ==
    [op |-> op, arg |-> arg, ret |-> r.ret, ev |-> r.ev, st |-> r.st,
     ws |-> r.ws, out |-> r.out, delivered |-> r.delivered,
     preSync |-> sync, preState |-> frame_state, preFrame |-> frame,
     preEn |-> i2se]

\* The Transfer and the enable bit after a step with result r
Apply(op, arg, r) ==
    /\ frame' = r.frame
    /\ frame_state' = r.frame_state
    /\ sync' = r.sync
    /\ i2se' = r.i2se
    /\ panicked' = (r.ret = "Panic")
    /\ last' = Observe(op, arg, r)
    /\ UNCHANGED <<live, ms, tr, std, fmt>>
    /\ UNCHANGED <<dvars, ivars, fvars, lvars>>

\* A step of a non-blocking write or read, or one iteration of a blocking
\* loop.  arg is the frame the caller hands over: the argument of write, or
\* the item samples.next() returned in this iteration (NoFrame otherwise).
Commit(op, arg, r) ==
    LET given == arg # NoFrame /\ (r.ret = "Ok" \/ r.pulled = 1)
        wrote == r.st # <<>> /\ r.st[1].txe /\ r.ret \notin {"Return", "Panic"}
    IN /\ Apply(op, arg, r)
       /\ call' = IF r.ret = "Return" THEN "none" ELSE call
       /\ remaining' = remaining - r.pulled
       /\ accepted' = IF given THEN arg ELSE accepted
       /\ emitted' = IF given THEN r.out ELSE emitted \o r.out
       /\ sinceZero' = IF ms = "Master" /\ tr = "Transmit" /\ wrote
                        THEN IF frame_state = "LeftMsb" THEN 1 ELSE sinceZero + 1
                        ELSE sinceZero

\* Inputs of a step.  A slave Transfer reads the status register only when
\* synchronised and the WS pin only when not; an input the step does not
\* read is fixed.
NoFlags ==
    [txe |-> FALSE, rxne |-> FALSE, chside |-> FALSE,
     ovr |-> FALSE, fre |-> FALSE, udr |-> FALSE]
StatusRead == IF ms = "Slave" /\ ~sync THEN {NoFlags} ELSE StatusValues(ms, tr)
WsRead == IF sync THEN {FALSE} ELSE Levels

\* What samples.next() returns: None once the iterator is exhausted
NextSample == IF remaining = 0 THEN {NoFrame} ELSE FrameArgs(fmt)

\* The item of an iteration, as far as the iteration took it
Pulled(smpl, r) == IF r.pulled = 1 THEN smpl ELSE NoFrame

\* The fields of a Transfer as I2sTransferConfig::i2s_transfer builds it;
\* I2sDriverConfig::i2s_driver leaves the peripheral disabled
Construct(m, d, s, f) ==
    /\ live' = TRUE
    /\ ms' = m /\ tr' = d /\ std' = s /\ fmt' = f
    /\ frame' = DefaultFrame
    /\ frame_state' = "LeftMsb"
    /\ sync' = FALSE
    /\ i2se' = FALSE
    /\ call' = "none"
    /\ remaining' = 0
    /\ panicked' = FALSE
    /\ accepted' = NoFrame
    /\ emitted' = <<>>
    /\ sinceZero' = 0

NoStep(op, ev) ==
    [op |-> op, arg |-> NoFrame, ret |-> "None", ev |-> ev, st |-> <<>>,
     ws |-> <<>>, out |-> <<>>, delivered |-> NoFrame,
     preSync |-> FALSE, preState |-> "LeftMsb", preFrame |-> DefaultFrame,
     preEn |-> FALSE]

Init ==
    /\ live = TRUE
    /\ ms \in Roles /\ tr \in Directions
    /\ std \in Standards /\ fmt \in DataFormats
    /\ frame = DefaultFrame
    /\ frame_state = "LeftMsb"
    /\ sync = FALSE
    /\ i2se = FALSE
    /\ call = "none"
    /\ remaining = 0
    /\ panicked = FALSE
    /\ last = NoStep("new", <<>>)
    /\ accepted = NoFrame
    /\ emitted = <<>>
    /\ sinceZero = 0
    /\ DriverUnused
    /\ I2sUnused
    /\ LibUnused
    /\ FormatUnused

\* I2sTransfer::new / I2sTransferConfig::i2s_transfer on a released peripheral
i2s_transfer ==
    /\ ~live
    /\ \E m \in Roles, d \in Directions, s \in Standards, f \in DataFormats :
          Construct(m, d, s, f)
    /\ last' = NoStep("new", <<>>)
    /\ UNCHANGED <<dvars, ivars, fvars, lvars>>

\* I2sTransfer::release: I2sDriver::release resets the peripheral
release ==
    /\ Idle
    /\ live' = FALSE
    /\ frame' = DefaultFrame
    /\ frame_state' = "LeftMsb"
    /\ sync' = FALSE
    /\ i2se' = FALSE
    /\ last' = [NoStep("release", <<"rst">>) EXCEPT
                   !.preSync = sync, !.preState = frame_state,
                   !.preFrame = frame, !.preEn = i2se]
    /\ accepted' = NoFrame
    /\ emitted' = <<>>
    /\ sinceZero' = 0
    /\ UNCHANGED <<ms, tr, std, fmt, call, remaining, panicked>>
    /\ UNCHANGED <<dvars, ivars, fvars, lvars>>

\* I2sTransfer::begin
begin ==
    /\ Idle
    /\ Apply("begin", NoFrame, [Enable(Res0) EXCEPT !.ret = "None"])
    /\ UNCHANGED <<call, remaining, accepted, emitted, sinceZero>>

\* Variant of end that leaves the sync flag as it is
end_KeepsSync ==
    /\ Idle
    /\ Apply("end", NoFrame,
             [Disable(Res0) EXCEPT !.frame = DefaultFrame,
                                   !.frame_state = "LeftMsb",
                                   !.ret = "None"])
    /\ accepted' = NoFrame
    /\ emitted' = <<>>
    /\ sinceZero' = 0
    /\ UNCHANGED <<call, remaining>>

\* I2sTransfer::end
end ==
    /\ Idle
    /\ Apply("end", NoFrame,
             [Disable(Res0) EXCEPT !.frame = DefaultFrame,
                                   !.frame_state = "LeftMsb",
                                   !.sync = FALSE,
                                   !.ret = "None"])
    /\ accepted' = NoFrame
    /\ emitted' = <<>>
    /\ sinceZero' = 0
    /\ UNCHANGED <<call, remaining>>

\* Entry of write_iter: `samples.into_iter()`, and `self.driver.enable()` in
\* master mode; n is the number of frames the iterator yields
write_iter_enter ==
    /\ Idle
    /\ tr = "Transmit"
    /\ Data16(fmt) \/ fmt = "Data32Channel32"
    /\ \E n \in 0..MaxIter :
          /\ call' = "write_iter"
          /\ remaining' = n
    /\ Apply("write_iter_enter", NoFrame,
             [(IF ms = "Master" THEN Enable(Res0) ELSE Res0) EXCEPT !.ret = "None"])
    /\ UNCHANGED <<accepted, emitted, sinceZero>>

\* Entry of read_while: `self.driver.enable()` in master mode
read_while_enter ==
    /\ Idle
    /\ tr = "Receive"
    /\ ChannelFlag(std)
    /\ Data16(fmt) \/ fmt = "Data32Channel32"
    /\ call' = "read_while"
    /\ Apply("read_while_enter", NoFrame,
             [(IF ms = "Master" THEN Enable(Res0) ELSE Res0) EXCEPT !.ret = "None"])
    /\ UNCHANGED <<remaining, accepted, emitted, sinceZero>>

MasterTransmit16_write_step ==
    /\ Idle /\ ms = "Master" /\ tr = "Transmit" /\ Data16(fmt)
    /\ \E frame_arg \in FrameArgs(fmt), status \in StatusRead :
          Commit("write", frame_arg, MasterTransmit16_write(frame_arg, status))

MasterTransmit32_write_step ==
    /\ Idle /\ ms = "Master" /\ tr = "Transmit" /\ fmt = "Data32Channel32"
    /\ \E frame_arg \in FrameArgs(fmt), status \in StatusRead :
          Commit("write", frame_arg, MasterTransmit32_write(frame_arg, status))

SlaveTransmit16_write_step ==
    /\ Idle /\ ms = "Slave" /\ tr = "Transmit" /\ Data16(fmt)
    /\ \E frame_arg \in FrameArgs(fmt), status \in StatusRead,
          ws1 \in WsRead, ws2 \in WsRead :
          Commit("write", frame_arg,
                 SlaveTransmit16_write(frame_arg, status, ws1, ws2))

SlaveTransmit32_write_step ==
    /\ Idle /\ ms = "Slave" /\ tr = "Transmit" /\ fmt = "Data32Channel32"
    /\ \E frame_arg \in FrameArgs(fmt), status \in StatusRead,
          ws1 \in WsRead, ws2 \in WsRead :
          Commit("write", frame_arg,
                 SlaveTransmit32_write(frame_arg, status, ws1, ws2))

MasterTransmit16_write_iter_step ==
    /\ Usable /\ call = "write_iter"
    /\ ms = "Master" /\ tr = "Transmit" /\ Data16(fmt)
    /\ \E smpl \in NextSample, status \in StatusRead :
          LET r == MasterTransmit16_write_iter(smpl, status) IN
          Commit("write_iter", Pulled(smpl, r), r)

MasterTransmit32_write_iter_step ==
    /\ Usable /\ call = "write_iter"
    /\ ms = "Master" /\ tr = "Transmit" /\ fmt = "Data32Channel32"
    /\ \E smpl \in NextSample, status \in StatusRead :
          LET r == MasterTransmit32_write_iter(smpl, status) IN
          Commit("write_iter", Pulled(smpl, r), r)

SlaveTransmit16_write_iter_step ==
    /\ Usable /\ call = "write_iter"
    /\ ms = "Slave" /\ tr = "Transmit" /\ Data16(fmt)
    /\ \E smpl \in NextSample, status \in StatusRead,
          ws1 \in WsRead, ws2 \in WsRead :
          LET r == SlaveTransmit16_write_iter(smpl, status, ws1, ws2) IN
          Commit("write_iter", Pulled(smpl, r), r)

SlaveTransmit32_write_iter_step ==
    /\ Usable /\ call = "write_iter"
    /\ ms = "Slave" /\ tr = "Transmit" /\ fmt = "Data32Channel32"
    /\ \E smpl \in NextSample, status \in StatusRead,
          ws1 \in WsRead, ws2 \in WsRead :
          LET r == SlaveTransmit32_write_iter(smpl, status, ws1, ws2) IN
          Commit("write_iter", Pulled(smpl, r), r)

MasterReceive16_read_step ==
    /\ Idle /\ ms = "Master" /\ tr = "Receive" /\ Data16(fmt) /\ ChannelFlag(std)
    /\ \E status \in StatusRead, data \in DrValues :
          Commit("read", NoFrame, MasterReceive16_read(status, data))

MasterReceive32_read_step ==
    /\ Idle /\ ms = "Master" /\ tr = "Receive" /\ fmt = "Data32Channel32"
    /\ ChannelFlag(std)
    /\ \E status \in StatusRead, data \in DrValues :
          Commit("read", NoFrame, MasterReceive32_read(status, data))

SlaveReceive16_read_step ==
    /\ Idle /\ ms = "Slave" /\ tr = "Receive" /\ Data16(fmt) /\ ChannelFlag(std)
    /\ \E status \in StatusRead, data \in DrValues,
          ws1 \in WsRead, ws2 \in WsRead :
          Commit("read", NoFrame, SlaveReceive16_read(status, data, ws1, ws2))

SlaveReceive32_read_step ==
    /\ Idle /\ ms = "Slave" /\ tr = "Receive" /\ fmt = "Data32Channel32"
    /\ ChannelFlag(std)
    /\ \E status \in StatusRead, data \in DrValues,
          ws1 \in WsRead, ws2 \in WsRead :
          Commit("read", NoFrame, SlaveReceive32_read(status, data, ws1, ws2))

MasterReceive16_read_while_step ==
    /\ Usable /\ call = "read_while"
    /\ ms = "Master" /\ tr = "Receive" /\ Data16(fmt)
    /\ \E status \in StatusRead, data \in DrValues, pred \in BOOLEAN :
          Commit("read_while", NoFrame,
                 MasterReceive16_read_while(status, data, pred))

MasterReceive32_read_while_step ==
    /\ Usable /\ call = "read_while"
    /\ ms = "Master" /\ tr = "Receive" /\ fmt = "Data32Channel32"
    /\ \E status \in StatusRead, data \in DrValues, pred \in BOOLEAN :
          Commit("read_while", NoFrame,
                 MasterReceive32_read_while(status, data, pred))

SlaveReceive16_read_while_step ==
    /\ Usable /\ call = "read_while"
    /\ ms = "Slave" /\ tr = "Receive" /\ Data16(fmt)
    /\ \E status \in StatusRead, data \in DrValues, pred \in BOOLEAN,
          ws1 \in WsRead, ws2 \in WsRead :
          Commit("read_while", NoFrame,
                 SlaveReceive16_read_while(status, data, pred, ws1, ws2))

SlaveReceive32_read_while_step ==
    /\ Usable /\ call = "read_while"
    /\ ms = "Slave" /\ tr = "Receive" /\ fmt = "Data32Channel32"
    /\ \E status \in StatusRead, data \in DrValues, pred \in BOOLEAN,
          ws1 \in WsRead, ws2 \in WsRead :
          Commit("read_while", NoFrame,
                 SlaveReceive32_read_while(status, data, pred, ws1, ws2))

Next ==
    \/ i2s_transfer
    \/ release
    \/ begin
    \/ end
    \/ write_iter_enter
    \/ read_while_enter
    \/ MasterTransmit16_write_step
    \/ MasterTransmit32_write_step
    \/ SlaveTransmit16_write_step
    \/ SlaveTransmit32_write_step
    \/ MasterTransmit16_write_iter_step
    \/ MasterTransmit32_write_iter_step
    \/ SlaveTransmit16_write_iter_step
    \/ SlaveTransmit32_write_iter_step
    \/ MasterReceive16_read_step
    \/ MasterReceive32_read_step
    \/ SlaveReceive16_read_step
    \/ SlaveReceive32_read_step
    \/ MasterReceive16_read_while_step
    \/ MasterReceive32_read_while_step
    \/ SlaveReceive16_read_while_step
    \/ SlaveReceive32_read_while_step

Spec == Init /\ [][Next]_vars

TypeOK ==
    /\ live \in BOOLEAN /\ sync \in BOOLEAN /\ i2se \in BOOLEAN
    /\ ms \in Roles /\ tr \in Directions
    /\ std \in Standards /\ fmt \in DataFormats
    /\ frame_state \in FrameStates
    /\ call \in {"none", "write_iter", "read_while"}
    /\ remaining \in 0..MaxIter
    /\ Len(frame) = 2
    /\ Len(emitted) <= 4
    /\ sinceZero \in 0..4

\* ------------------------------------------------------------------------
\* Properties

\* the operations that poll the hardware: the non-blocking calls and the
\* iterations of the blocking loops
StepOps == {"write", "read", "write_iter", "read_while"}

\* number of occurrences of the access x in the accesses ev of a step
CountEv(ev, x) == Cardinality({i \in 1..Len(ev) : ev[i] = x})

\* the level check `!_ws_is_start()` passes on this level of the WS pin
CheckPasses(level) == level # WS_START_LEVEL(std)

\* the last operation was a step of a slave Transfer
SlaveStep == live /\ ms = "Slave" /\ last.op \in StepOps

\* the last operation was a step that read a status showing flag f
Observed(f) == last.st # <<>> /\ last.st[1][f]

\* C1: a slave Transfer goes from SYNCING to SYNCED only in a step that read
\* the WS pin twice, once before and once after enabling the peripheral, and
\* found it off its start level both times; a step whose second check fails
\* ends with the peripheral disabled again and the Transfer still SYNCING.
C1_SyncOnlyAfterTwoChecks ==
    (live /\ ms = "Slave") =>
        /\ (~last.preSync /\ sync) =>
               /\ last.op \in StepOps
               /\ Len(last.ws) = 2
               /\ CheckPasses(last.ws[1]) /\ CheckPasses(last.ws[2])
               /\ CountEv(last.ev, "en") = 1
               /\ \E i, j, k \in 1..Len(last.ev) :
                     /\ i < j /\ j < k
                     /\ last.ev[i] = "ws" /\ last.ev[j] = "en" /\ last.ev[k] = "ws"
               /\ i2se
        /\ (SlaveStep /\ ~last.preSync /\ Len(last.ws) = 2
               /\ ~CheckPasses(last.ws[2])) =>
               /\ ~sync
               /\ ~i2se
               /\ last.ev[Len(last.ev)] = "dis"

\* C1 witness: a step has just synchronised a slave Transfer
C1_Witness == SlaveStep /\ ~last.preSync /\ sync

\* C2 (as claimed): a step of a slave Transfer in SYNCING writes no word to
\* the data register, stores no received word and delivers no frame.
C2_NoWordWhileSyncing ==
    (SlaveStep /\ ~last.preSync) =>
        /\ last.out = <<>>
        /\ (tr = "Receive" => frame = last.preFrame)
        /\ last.delivered = NoFrame

\* C2 (amended): in SYNCING the only data register write is the pre-load of
\* the first word of the stored frame, made by a transmit step after its
\* first WS check passed and before it enables the peripheral; a receive
\* step in SYNCING stores no word and no step in SYNCING delivers a frame.
C2_OnlyPreloadWhileSyncing ==
    (SlaveStep /\ ~last.preSync) =>
        /\ last.delivered = NoFrame
        /\ (tr = "Receive" => last.out = <<>> /\ frame = last.preFrame)
        /\ (tr = "Transmit" /\ last.out # <<>> =>
               /\ last.out = <<FrameWords(frame)[1]>>
               /\ CheckPasses(last.ws[1])
               /\ SubSeq(last.ev, 1, 3) = <<"ws", "drw", "en">>)

\* C2 witness: a transmit step pre-loaded a word while SYNCING and stayed there
C2_Witness ==
    SlaveStep /\ ~last.preSync /\ tr = "Transmit" /\ last.out # <<>> /\ ~sync

\* C3: a step of a SYNCED slave Transfer whose status read shows a frame
\* error (or an underrun when transmitting, an overrun when receiving) ends
\* in SYNCING with the peripheral disabled, and reports no error.
C3_ErrorFlagResyncs ==
    (SlaveStep /\ last.preSync /\ last.ret # "Panic"
       /\ (Observed("fre") \/ Observed("udr") \/ Observed("ovr"))) =>
        /\ ~sync
        /\ ~i2se
        /\ last.ret \in {"Ok", "WouldBlock", "Continue", "Return"}

\* the last operation was a read / read_while step in master receive
MasterReceiveStep ==
    live /\ ms = "Master" /\ tr = "Receive" /\ last.op \in {"read", "read_while"}

\* the step ended by the flag clearing sequence: data register, then status
ClearedOverrun ==
    /\ Len(last.ev) >= 2
    /\ SubSeq(last.ev, Len(last.ev) - 1, Len(last.ev)) = <<"drr", "sr">>

MasterTransmit == live /\ ms = "Master" /\ tr = "Transmit"

\* the words written since a frame was taken are the first words of it
EmittedFromAccepted ==
    accepted # NoFrame => IsPrefix(emitted, FrameWords(accepted))

\* C5: in master transmit the cursor is back at 0 after exactly frame_len
\* steps that found TXE set, not before; the step that follows takes the
\* new frame, and the words emitted for it are the words of that frame.
C5_CursorReturnsAndFreshFrame ==
    MasterTransmit =>
        /\ (frame_state = "LeftMsb" => sinceZero \in {0, FrameLen})
        /\ (frame_state # "LeftMsb" =>
               sinceZero = Cursor(frame_state) /\ sinceZero < FrameLen)
        /\ (last.op = "write" /\ last.preState = "LeftMsb" /\ Observed("txe") =>
               /\ last.ret = "Ok"
               /\ frame = last.arg
               /\ last.out = <<FrameWords(last.arg)[1]>>)
        /\ EmittedFromAccepted

\* C6: in master transmit the words written to the data register from the
\* call that accepted a frame until the next accepted frame are the words
\* of that frame in order, whatever the other calls were given.
C6_EmittedWordsAreAcceptedFrame ==
    (MasterTransmit /\ accepted # NoFrame) =>
        /\ Len(emitted) = (IF frame_state = "LeftMsb" THEN FrameLen
                           ELSE Cursor(frame_state))
        /\ emitted = SubSeq(FrameWords(accepted), 1, Len(emitted))

\* C7: in slave transmit write(frame) returns Ok only when the Transfer is
\* SYNCED on return and `frame` is the frame in progress, whose first word
\* is the word the call wrote.
C7_OkMeansSyncedAndStored ==
    (live /\ ms = "Slave" /\ tr = "Transmit"
       /\ last.op = "write" /\ last.ret = "Ok") =>
        /\ sync
        /\ frame = last.arg
        /\ last.out = <<FrameWords(last.arg)[1]>>

\* C8: the cursor stays within the frame.  With 16 bit data the position is
\* LeftMsb or RightMsb only and no unreachable!() arm is executed; with 32
\* bit data a synchronised step that writes a word, or a slave step that
\* stores a received one, moves to the next of the four positions.
C8_CursorInRange ==
    /\ ~panicked
    /\ frame_state \in FrameStates
    /\ (Data16(fmt) => frame_state \in {"LeftMsb", "RightMsb"})
    /\ Cursor(frame_state) < FrameLen
    /\ (live /\ fmt = "Data32Channel32" /\ last.op \in StepOps
           /\ (ms = "Slave" => last.preSync)
           /\ (last.out # <<>> \/ (ms = "Slave" /\ Observed("rxne"))) =>
           Cursor(frame_state) = (Cursor(last.preState) + 1) % 4)

\* C8 witness: a step of a 16 bit Transfer moved the cursor back to 0
C8_Witness ==
    /\ live /\ Data16(fmt) /\ last.op \in StepOps
    /\ last.preState = "RightMsb" /\ frame_state = "LeftMsb"

\* C9: end() leaves the Transfer as construction does: peripheral disabled,
\* default frame, cursor 0, not synchronised.
C9_EndResets ==
    last.op = "end" =>
        /\ ~i2se
        /\ frame = DefaultFrame
        /\ frame_state = "LeftMsb"
        /\ ~sync

\* C9 witness: end() was called on a SYNCED, enabled Transfer in mid-frame
C9_Witness ==
    /\ last.op = "end"
    /\ last.preSync /\ last.preEn
    /\ last.preState # "LeftMsb" /\ last.preFrame # DefaultFrame

\* number of data register accesses of the last step
DrAccesses == CountEv(last.ev, "drr") + CountEv(last.ev, "drw")

SameMachine(a, b) ==
    /\ a.frame_state = b.frame_state
    /\ a.sync = b.sync
    /\ a.delivered = b.delivered
    /\ a.out = b.out

\* C11: from every state a Transfer can be in, and for the same hardware
\* observations (status flags, data register value, WS levels), one call of
\* read() and one iteration of read_while leave the same cursor and sync
\* state and deliver the same frame, and one call of write() with a frame
\* and one iteration of write_iter whose iterator yields that frame leave
\* the same cursor and sync state and write the same data register words.
C11_BlockingMatchesNonBlocking ==
    Usable =>
      \A status \in StatusRead, ws1 \in WsRead, ws2 \in WsRead :
        /\ (tr = "Receive" /\ ChannelFlag(std)) =>
             \A data \in DrValues :
               CASE ms = "Master" /\ Data16(fmt) ->
                      SameMachine(MasterReceive16_read(status, data),
                                  MasterReceive16_read_while(status, data, TRUE))
                 [] ms = "Master" /\ fmt = "Data32Channel32" ->
                      SameMachine(MasterReceive32_read(status, data),
                                  MasterReceive32_read_while(status, data, TRUE))
                 [] ms = "Slave" /\ Data16(fmt) ->
                      SameMachine(SlaveReceive16_read(status, data, ws1, ws2),
                                  SlaveReceive16_read_while(status, data, TRUE,
                                                            ws1, ws2))
                 [] ms = "Slave" /\ fmt = "Data32Channel32" ->
                      SameMachine(SlaveReceive32_read(status, data, ws1, ws2),
                                  SlaveReceive32_read_while(status, data, TRUE,
                                                            ws1, ws2))
                 [] OTHER -> TRUE
        /\ tr = "Transmit" =>
             \A f \in FrameArgs(fmt) :
               CASE ms = "Master" /\ Data16(fmt) ->
                      SameMachine(MasterTransmit16_write(f, status),
                                  MasterTransmit16_write_iter(f, status))
                 [] ms = "Master" /\ fmt = "Data32Channel32" ->
                      SameMachine(MasterTransmit32_write(f, status),
                                  MasterTransmit32_write_iter(f, status))
                 [] ms = "Slave" /\ Data16(fmt) ->
                      SameMachine(SlaveTransmit16_write(f, status, ws1, ws2),
                                  SlaveTransmit16_write_iter(f, status, ws1, ws2))
                 [] ms = "Slave" /\ fmt = "Data32Channel32" ->
                      SameMachine(SlaveTransmit32_write(f, status, ws1, ws2),
                                  SlaveTransmit32_write_iter(f, status, ws1, ws2))
                 [] OTHER -> TRUE

\* ========================================================================
\* Configuration builder and register-level driver: actions

\* a panic ends the program
Halted == dlast.panic # "none"

\* a configuration value is at hand and no driver owns the peripheral
Building == ~Halted /\ ~driver /\ cfg # NoConfig

\* a driver owns the peripheral
Driving == ~Halted /\ driver

\* the Transfer layer is not involved
TransferUnused ==
    /\ live = FALSE
    /\ ms = "Master" /\ tr = "Transmit"
    /\ std = "Philips" /\ fmt = "Data16Channel16"
    /\ frame = DefaultFrame
    /\ frame_state = "LeftMsb"
    /\ sync = FALSE
    /\ i2se = FALSE
    /\ call = "none"
    /\ remaining = 0
    /\ panicked = FALSE
    /\ last = NoStep("new", <<>>)
    /\ accepted = NoFrame
    /\ emitted = <<>>
    /\ sinceZero = 0

\* a builder method returning the configuration c
Build(c) ==
    /\ cfg' = c
    /\ dlast' = NoOp("build")
    /\ UNCHANGED <<tvars, ivars, fvars, lvars, overflow_checks, dual, driver, i2s_freq, regs>>

InitDriver ==
    /\ TransferUnused
    /\ I2sUnused
    /\ LibUnused
    /\ FormatUnused
    /\ overflow_checks \in BOOLEAN
    /\ dual \in BOOLEAN
    /\ cfg \in {new_slave, new_master}
    /\ driver = FALSE
    /\ i2s_freq = <<0, 0>>
    /\ regs = ResetRegs
    /\ dlast = NoOp("none")

\* new_slave() / new_master() once the previous configuration was consumed
\* and the peripheral was released
new_config ==
    /\ ~Halted /\ ~driver
    /\ \E c \in {new_slave, new_master} : Build(c)

\* I2sDriverConfig::transmit
transmit ==
    /\ Building /\ ~dual
    /\ Build([cfg EXCEPT !.transmit_or_receive = "Transmit"])

\* I2sDriverConfig::receive
receive ==
    /\ Building /\ ~dual
    /\ Build([cfg EXCEPT !.transmit_or_receive = "Receive"])

\* I2sDriverConfig::direction / DualI2sDriverConfig::direction
direction ==
    /\ Building
    /\ \E d \in Directions, e \in Directions :
          /\ ~dual => e = "Transmit"
          /\ Build([cfg EXCEPT !.transmit_or_receive = d,
                               !.ext_dir = IF dual THEN e ELSE @])

\* I2sDriverConfig::standard / DualI2sDriverConfig::standard
standard ==
    /\ Building
    /\ \E s \in Standards : Build([cfg EXCEPT !.standard = s])

\* I2sDriverConfig::clock_polarity / DualI2sDriverConfig::clock_polarity
clock_polarity ==
    /\ Building
    /\ \E polarity \in ClockPolarities :
          Build([cfg EXCEPT !.clock_polarity = polarity])

\* I2sDriverConfig::data_format / DualI2sDriverConfig::data_format
data_format ==
    /\ Building
    /\ \E f \in DataFormats : Build([cfg EXCEPT !.data_format = f])

\* Variant of to_slave that keeps the frequency setting
to_slave_KeepsFrequency ==
    /\ Building
    /\ cfg' = [cfg EXCEPT !.slave_or_master = "Slave", !.master_clock = FALSE]
    /\ dlast' = [NoOp("to_slave") EXCEPT !.cfg = cfg]
    /\ UNCHANGED <<tvars, ivars, fvars, lvars, overflow_checks, dual, driver, i2s_freq, regs>>

\* I2sDriverConfig::to_slave / DualI2sDriverConfig::to_slave
to_slave ==
    /\ Building
    /\ cfg' = [cfg EXCEPT !.slave_or_master = "Slave",
                          !.master_clock = FALSE,
                          !.frequency = Prescaler(FALSE, 2)]
    /\ dlast' = [NoOp("to_slave") EXCEPT !.cfg = cfg]
    /\ UNCHANGED <<tvars, ivars, fvars, lvars, overflow_checks, dual, driver, i2s_freq, regs>>

\* I2sDriverConfig::to_master / DualI2sDriverConfig::to_master
to_master ==
    /\ Building
    /\ cfg' = [cfg EXCEPT !.slave_or_master = "Master"]
    /\ dlast' = [NoOp("to_master") EXCEPT !.cfg = cfg]
    /\ UNCHANGED <<tvars, ivars, fvars, lvars, overflow_checks, dual, driver, i2s_freq, regs>>

\* Variant of master_clock offered on configurations of either role
master_clock_AnyRole ==
    /\ Building
    /\ \E enable_arg \in BOOLEAN : Build([cfg EXCEPT !.master_clock = enable_arg])

\* I2sDriverConfig<Master>::master_clock
master_clock ==
    /\ Building /\ cfg.slave_or_master = "Master"
    /\ \E enable_arg \in BOOLEAN : Build([cfg EXCEPT !.master_clock = enable_arg])

\* I2sDriverConfig<Master>::prescaler: panics when div < 2
prescaler ==
    /\ Building /\ cfg.slave_or_master = "Master"
    /\ \E odd \in BOOLEAN, div \in PrescalerDivs :
          IF div < 2
          THEN /\ dlast' = [NoOp("prescaler") EXCEPT !.panic = "div_lt_2",
                                                     !.cfg = cfg]
               /\ UNCHANGED <<tvars, ivars, fvars, lvars, overflow_checks, dual, cfg, driver,
                              i2s_freq, regs>>
          ELSE Build([cfg EXCEPT !.frequency = Prescaler(odd, div)])

\* I2sDriverConfig<Master>::request_frequency
request_frequency ==
    /\ Building /\ cfg.slave_or_master = "Master"
    /\ \E freq \in RateValues : Build([cfg EXCEPT !.frequency = Request(freq)])

\* I2sDriverConfig<Master>::require_frequency
require_frequency ==
    /\ Building /\ cfg.slave_or_master = "Master"
    /\ \E freq \in RateValues : Build([cfg EXCEPT !.frequency = Require(freq)])

\* A materialization of the configuration c with result m: the registers it
\* leaves, the driver it returns unless it panicked, and its observation
Materialize(op, c, m) ==
    /\ regs' = m.regs
    /\ driver' = (m.panic = "none")
    /\ dlast' = [op |-> op, panic |-> m.panic, cfg |-> c, pre |-> regs,
                 resets |-> 0]

\* I2sDriverConfig::i2s_driver (I2sDriver::new) on a peripheral whose
\* i2s_freq() is i2s_clock
i2s_driver ==
    /\ Building /\ ~dual
    /\ \E i2s_clock \in ClockValues :
          /\ Materialize("i2s_driver", cfg,
                         i2s_driver_setup(regs, cfg, i2s_clock))
          /\ i2s_freq' = i2s_clock
    /\ cfg' = NoConfig
    /\ UNCHANGED <<tvars, ivars, fvars, lvars, overflow_checks, dual>>

\* DualI2sDriverConfig::dual_i2s_driver (DualI2sDriver::new)
dual_i2s_driver ==
    /\ Building /\ dual
    /\ \E i2s_clock \in ClockValues :
          /\ Materialize("i2s_driver", cfg,
                         dual_i2s_driver_setup(regs, cfg, i2s_clock))
          /\ i2s_freq' = i2s_clock
    /\ cfg' = NoConfig
    /\ UNCHANGED <<tvars, ivars, fvars, lvars, overflow_checks, dual>>

\* a configuration built elsewhere is at hand
pick_config ==
    /\ ~Halted /\ ~driver
    /\ \E c \in DriverConfigs : Build(c)

\* I2sDriver::reconfigure / DualI2sDriver::reconfigure
reconfigure ==
    /\ Driving
    /\ \E c \in DriverConfigs :
          IF dual
          THEN Materialize("reconfigure", c,
                           dual_i2s_driver_setup(regs, c, i2s_freq))
          ELSE Materialize("reconfigure", c,
                           i2s_driver_setup(regs, c, i2s_freq))
    /\ UNCHANGED <<tvars, ivars, fvars, lvars, overflow_checks, dual, cfg, i2s_freq>>

\* the parts a driver gives access to: I2sDriver its only core, DualI2sDriver
\* main() and ext()
DriverParts == IF dual THEN Parts ELSE {"main"}

\* typestate of a part, as the configuration wrote it to I2SCFGR
IsTransmit(part) == regs[part].i2scfgr.i2scfg \in {"slave_tx", "master_tx"}
IsMaster(part) == regs[part].i2scfgr.i2scfg \in {"master_tx", "master_rx"}

\* a driver method that leaves the registers r
DriverOp(op, r) ==
    /\ regs' = r
    /\ dlast' = [NoOp(op) EXCEPT !.pre = regs]
    /\ UNCHANGED <<tvars, ivars, fvars, lvars, overflow_checks, dual, cfg, driver, i2s_freq>>

\* I2sDriver::enable / I2sCore::enable
enable ==
    /\ Driving
    /\ \E part \in DriverParts :
          DriverOp("enable", [regs EXCEPT ![part].i2scfgr.i2se = TRUE])

\* I2sDriver::disable / I2sCore::disable
disable ==
    /\ Driving
    /\ \E part \in DriverParts :
          DriverOp("disable", [regs EXCEPT ![part].i2scfgr.i2se = FALSE])

\* set_tx_interrupt (Transmit-only)
set_tx_interrupt ==
    /\ Driving
    /\ \E part \in DriverParts, enabled \in BOOLEAN :
          /\ IsTransmit(part)
          /\ DriverOp("set", [regs EXCEPT ![part].cr2.txeie = enabled])

\* set_tx_dma (Transmit-only)
set_tx_dma ==
    /\ Driving
    /\ \E part \in DriverParts, enabled \in BOOLEAN :
          /\ IsTransmit(part)
          /\ DriverOp("set", [regs EXCEPT ![part].cr2.txdmaen = enabled])

\* set_rx_interrupt (Receive-only)
set_rx_interrupt ==
    /\ Driving
    /\ \E part \in DriverParts, enabled \in BOOLEAN :
          /\ ~IsTransmit(part)
          /\ DriverOp("set", [regs EXCEPT ![part].cr2.rxneie = enabled])

\* set_rx_dma (Receive-only)
set_rx_dma ==
    /\ Driving
    /\ \E part \in DriverParts, enabled \in BOOLEAN :
          /\ ~IsTransmit(part)
          /\ DriverOp("set", [regs EXCEPT ![part].cr2.rxdmaen = enabled])

\* set_error_interrupt (every mode but master transmit)
set_error_interrupt ==
    /\ Driving
    /\ \E part \in DriverParts, enabled \in BOOLEAN :
          /\ ~(IsMaster(part) /\ IsTransmit(part))
          /\ DriverOp("set", [regs EXCEPT ![part].cr2.errie = enabled])

\* The peripheral at work: an enabled core raises flags in its status
\* register and receives a word in its data register
activity ==
    /\ Driving
    /\ \E part \in DriverParts :
          /\ regs[part].i2scfgr.i2se
          /\ DriverOp("activity", [regs EXCEPT ![part].sr = 67,
                                               ![part].dr = 65535])

\* I2sDriver<Master>::reset_clocks
reset_clocks ==
    /\ Driving /\ ~dual /\ IsMaster("main")
    /\ regs' = reset_clocks_regs(regs)
    /\ dlast' = [NoOp("reset_clocks") EXCEPT !.pre = regs, !.resets = 1]
    /\ UNCHANGED <<tvars, ivars, fvars, lvars, overflow_checks, dual, cfg, driver, i2s_freq>>

\* DualI2sDriver<Master>::reset_clocks
dual_reset_clocks ==
    /\ Driving /\ dual /\ IsMaster("main")
    /\ regs' = dual_reset_clocks_regs(regs)
    /\ dlast' = [NoOp("reset_clocks") EXCEPT !.pre = regs, !.resets = 1]
    /\ UNCHANGED <<tvars, ivars, fvars, lvars, overflow_checks, dual, cfg, driver, i2s_freq>>

\* variant of release that hands the peripheral back without the bus reset
driver_release_NoReset ==
    /\ Driving
    /\ driver' = FALSE
    /\ i2s_freq' = <<0, 0>>
    /\ dlast' = [NoOp("release") EXCEPT !.pre = regs]
    /\ UNCHANGED <<tvars, ivars, fvars, lvars, overflow_checks, dual, cfg, regs>>

\* I2sDriver::release / DualI2sDriver::release
driver_release ==
    /\ Driving
    /\ regs' = rcc_reset(regs)
    /\ driver' = FALSE
    /\ i2s_freq' = <<0, 0>>
    /\ dlast' = [NoOp("release") EXCEPT !.pre = regs, !.resets = 1]
    /\ UNCHANGED <<tvars, ivars, fvars, lvars, overflow_checks, dual, cfg>>

\* The configuration builder followed by the materialization
NextConfig ==
    \/ new_config
    \/ transmit
    \/ receive
    \/ direction
    \/ standard
    \/ clock_polarity
    \/ data_format
    \/ to_slave
    \/ to_master
    \/ master_clock
    \/ prescaler
    \/ request_frequency
    \/ require_frequency
    \/ i2s_driver
    \/ dual_i2s_driver

SpecConfig == InitDriver /\ [][NextConfig]_vars

\* A driver from its materialization to its release
InitDriving ==
    /\ TransferUnused
    /\ I2sUnused
    /\ LibUnused
    /\ FormatUnused
    /\ overflow_checks \in BOOLEAN
    /\ dual \in BOOLEAN
    /\ cfg \in DriverConfigs
    /\ driver = FALSE
    /\ i2s_freq = <<0, 0>>
    /\ regs = ResetRegs
    /\ dlast = NoOp("none")

NextDriver ==
    \/ pick_config
    \/ i2s_driver
    \/ dual_i2s_driver
    \/ reconfigure
    \/ enable
    \/ disable
    \/ set_tx_interrupt
    \/ set_tx_dma
    \/ set_rx_interrupt
    \/ set_rx_dma
    \/ set_error_interrupt
    \/ activity
    \/ reset_clocks
    \/ dual_reset_clocks
    \/ driver_release

SpecDriver == InitDriving /\ [][NextDriver]_vars

\* ------------------------------------------------------------------------
\* Properties of the configuration and of the register-level driver

\* the last operation was a materialization that returned a driver
Materializations == {"i2s_driver", "reconfigure"}

MaterializedOk == dlast.op \in Materializations /\ dlast.panic = "none"

\* the divider pair held by I2SPR is one the hardware accepts
ValidPrescaler(i2spr) ==
    /\ i2spr.i2sdiv >= 2
    /\ 2 * i2spr.i2sdiv + (IF i2spr.odd THEN 1 ELSE 0) \in 4..511

\* `coef * request_freq` of the configuration c in 32-bit unsigned
\* arithmetic
WrappedProduct(c) ==
    Wrap32(WMul(c.frequency.freq,
                coef(c.master_clock, c.standard, c.data_format)))

\* C12: after any successful materialization the prescaler written to I2SPR
\* satisfies div >= 2 and 2*div+odd in [4,511]; and for every i2s_clock and
\* requested rate with coef*rate > 0 in 32-bit unsigned arithmetic, a
\* materialization with Request completes and writes such a pair.
C12_PrescalerInRange ==
    /\ MaterializedOk => ValidPrescaler(regs.main.i2spr)
    /\ (/\ dlast.op \in Materializations
        /\ dlast.cfg.frequency.kind = "Request"
        /\ WrappedProduct(dlast.cfg) # <<0, 0>>)
       => (dlast.panic = "none" /\ ValidPrescaler(regs.main.i2spr))

\* the combined division 2*div+odd held by I2SPR
DivisionOf(i2spr) == 2 * i2spr.i2sdiv + (IF i2spr.odd THEN 1 ELSE 0)

\* a u32 division clipped to the range 4..511 of the prescaler
Clip(x) ==
    IF WLt(x, <<0, 4>>) THEN 4 ELSE IF WLt(<<0, 511>>, x) THEN 511 ELSE x[2]

\* the candidate divisions q-1, q, q+1 around the quotient q, clipped
Candidates(q) ==
    {Clip(IF q = <<0, 0>> THEN q ELSE WSub(q, <<0, 1>>)), Clip(q),
     Clip(WAdd(q, <<0, 1>>))}

\* the effective rate i2s_clock / (coef * division) the configuration c
\* gets from a division, and its distance from the requested rate
EffectiveRate(c, i2s_clock, division) ==
    WDiv(i2s_clock,
         ToU32(coef(c.master_clock, c.standard, c.data_format) * division))

RateError(c, i2s_clock, division) ==
    WAbsDiff(EffectiveRate(c, i2s_clock, division), c.frequency.freq)

\* C13: for a requested sample rate, the programmed division gives an
\* effective rate i2s_clock / (coef * division) whose absolute difference
\* from the requested rate is minimal among the candidate divisions q-1, q,
\* q+1 (q = i2s_clock / (coef*rate)) clipped to [4,511].
C13_MinimalRateError ==
    (/\ MaterializedOk
     /\ dlast.cfg.frequency.kind = "Request"
     /\ WrappedProduct(dlast.cfg) # <<0, 0>>)
    => \A cand \in Candidates(WDiv(i2s_freq, WrappedProduct(dlast.cfg))) :
          WLe(RateError(dlast.cfg, i2s_freq, DivisionOf(regs.main.i2spr)),
              RateError(dlast.cfg, i2s_freq, cand))

\* n/d rounded to the nearest integer, halves up, for u32 n and d > 0: the
\* quotient, plus one when twice the remainder reaches d
RoundHalfUp(n, d) ==
    IF WLe(WSub(d, WShr1(d)), WRem(n, d))
    THEN WAdd(WDiv(n, d), <<0, 1>>)
    ELSE WDiv(n, d)

\* the content of I2SPR the spec gives for a division
PrescalerFor(division, mckoe) ==
    IF WLt(division, <<0, 4>>)
    THEN [mckoe |-> mckoe, odd |-> FALSE, i2sdiv |-> 2]
    ELSE IF WLt(<<0, 511>>, division)
    THEN [mckoe |-> mckoe, odd |-> TRUE, i2sdiv |-> 255]
    ELSE [mckoe |-> mckoe, odd |-> (division[2] % 2 = 1),
          i2sdiv |-> division[2] \div 2]

\* `coef * request_freq` of the configuration c as a number
ExactProduct(c) ==
    WMul(c.frequency.freq, coef(c.master_clock, c.standard, c.data_format))

\* C14: Request computes division = round_half_up(i2s_clock / (coef*rate))
\* with div_round, which equals n/d rounded to the nearest integer with
\* halves rounded up for every n and every d > 0; a division below 4 is
\* programmed as (odd=0, div=2), a division above 511 as (odd=1, div=255),
\* and otherwise odd = division & 1 and div = division >> 1.
C14_RequestRoundsHalfUp ==
    (/\ dlast.op \in Materializations
     /\ dlast.cfg.frequency.kind = "Request"
     /\ Fits32(ExactProduct(dlast.cfg))
     /\ ExactProduct(dlast.cfg) # <<0, 0>>)
    => /\ dlast.panic = "none"
       /\ regs.main.i2spr =
             PrescalerFor(RoundHalfUp(i2s_freq, ExactProduct(dlast.cfg)),
                          dlast.cfg.master_clock)

\* i2s_clock is an exact multiple of coef*rate of the configuration c, with
\* a quotient in 4..511
ExactlyReachable(c, i2s_clock) ==
    /\ Fits32(ExactProduct(c))
    /\ ExactProduct(c) # <<0, 0>>
    /\ WRem(i2s_clock, ExactProduct(c)) = <<0, 0>>
    /\ WLe(<<0, 4>>, WDiv(i2s_clock, ExactProduct(c)))
    /\ WLe(WDiv(i2s_clock, ExactProduct(c)), <<0, 511>>)

\* C15: Require(rate) succeeds if and only if i2s_clock is an exact multiple
\* of coef*rate and the quotient lies in [4,511]; when it succeeds the
\* programmed (odd, div) are bit 0 and bits 8..1 of the quotient and the
\* sample_rate() readback equals exactly the rate; in every other case the
\* materialization fails and no prescaler is programmed.
C15_RequireExactOrFail ==
    (/\ dlast.op \in Materializations
     /\ dlast.cfg.frequency.kind = "Require")
    => /\ (dlast.panic = "none") <=> ExactlyReachable(dlast.cfg, i2s_freq)
       /\ dlast.panic = "none" =>
             /\ regs.main.i2spr =
                   PrescalerFor(WDiv(i2s_freq, ExactProduct(dlast.cfg)),
                                dlast.cfg.master_clock)
             /\ sample_rate_of(regs.main, i2s_freq) = dlast.cfg.frequency.freq
       /\ dlast.panic # "none" => regs.main.i2spr = dlast.pre.main.i2spr

\* the master-only settings of a configuration are the initial ones
MasterOnlyDefaults(c) ==
    /\ c.master_clock = FALSE
    /\ c.frequency = Prescaler(FALSE, 2)

\* C16: to_slave on any configuration, whatever master_clock, prescaler,
\* request_frequency and require_frequency calls preceded it, yields a Slave
\* configuration with master clock disabled and frequency Prescaler(0, 2),
\* keeping direction, standard, clock polarity and data format; a later
\* to_master does not bring the discarded master-only settings back.
C16_ToSlaveDiscardsMasterSettings ==
    /\ cfg.slave_or_master = "Slave" => MasterOnlyDefaults(cfg)
    /\ dlast.op = "to_slave" =>
          /\ cfg.slave_or_master = "Slave"
          /\ cfg.transmit_or_receive = dlast.cfg.transmit_or_receive
          /\ cfg.ext_dir = dlast.cfg.ext_dir
          /\ cfg.standard = dlast.cfg.standard
          /\ cfg.clock_polarity = dlast.cfg.clock_polarity
          /\ cfg.data_format = dlast.cfg.data_format
    /\ (dlast.op = "to_master" /\ dlast.cfg.slave_or_master = "Slave") =>
          /\ cfg.slave_or_master = "Master"
          /\ MasterOnlyDefaults(cfg)

\* to_slave was called on a master configuration with the master clock on,
\* a requested frequency and non-initial common settings
C16_Witness ==
    /\ dlast.op = "to_slave"
    /\ dlast.cfg.slave_or_master = "Master"
    /\ dlast.cfg.master_clock
    /\ dlast.cfg.frequency.kind = "Request"
    /\ dlast.cfg.transmit_or_receive = "Receive"
    /\ dlast.cfg.standard = "PcmLongSync"
    /\ dlast.cfg.data_format = "Data24Channel32"
    /\ cfg.slave_or_master = "Slave"

\* C17: after materialization (i2s_driver / dual_i2s_driver, also when
\* reached through reconfigure from a driver that was enabled with interrupt
\* or DMA bits set) the peripheral enable bit is 0 and all interrupt-enable
\* and DMA-enable bits of CR2 are 0; the peripheral becomes enabled only by
\* a later explicit enable.
C17_MaterializedDisabled ==
    /\ MaterializedOk =>
          \A part \in DriverParts :
             /\ ~regs[part].i2scfgr.i2se
             /\ regs[part].cr2 = Cr2Reset
    /\ \A part \in Parts :
          (regs[part].i2scfgr.i2se /\ ~dlast.pre[part].i2scfgr.i2se)
          => dlast.op = "enable"

\* a dual driver whose two cores were enabled with interrupt and DMA bits
\* set has been reconfigured
C17_Witness ==
    /\ dlast.op = "reconfigure" /\ dlast.panic = "none"
    /\ dual
    /\ dlast.pre.main.i2scfgr.i2se /\ dlast.pre.ext.i2scfgr.i2se
    /\ dlast.pre.main.cr2.rxneie /\ dlast.pre.main.cr2.rxdmaen
    /\ dlast.pre.main.cr2.errie
    /\ dlast.pre.ext.cr2.txeie /\ dlast.pre.ext.cr2.txdmaen

\* C18: materialization fails only when the frequency mode is Require: with
\* Prescaler(odd, div) or Request(rate), for every i2s_clock and every rate
\* value of the 32-bit input range, materialization completes and writes a
\* prescaler.
C18_OnlyRequireFails ==
    (/\ dlast.op \in Materializations
     /\ dlast.cfg.frequency.kind \in {"Prescaler", "Request"})
    => /\ dlast.panic = "none"
       /\ driver
       /\ ValidPrescaler(regs.main.i2spr)

\* CR2, I2SPR and I2SCFGR of a part hold what they held before the last
\* operation
Restored(part) ==
    /\ regs[part].cr2 = dlast.pre[part].cr2
    /\ regs[part].i2spr = dlast.pre[part].i2spr
    /\ regs[part].i2scfgr = dlast.pre[part].i2scfgr

\* C19: reset_clocks() on a master driver issues exactly one bus reset, and
\* afterwards CR2, I2SPR and I2SCFGR hold exactly the values they held
\* before the call, while the status and data registers are at their reset
\* values.
C19_ResetClocksRestores ==
    (dlast.op = "reset_clocks" /\ ~dual)
    => /\ dlast.resets = 1
       /\ Restored("main")
       /\ regs.main.sr = ResetBlock.sr
       /\ regs.main.dr = ResetBlock.dr

\* reset_clocks was called on an enabled master driver with a programmed
\* prescaler, interrupt and DMA bits set, and status and data registers
\* off their reset values
C19_Witness ==
    /\ dlast.op = "reset_clocks" /\ ~dual
    /\ dlast.pre.main.i2scfgr.i2se
    /\ dlast.pre.main.i2spr # I2sprReset
    /\ dlast.pre.main.cr2.rxneie /\ dlast.pre.main.cr2.rxdmaen
    /\ dlast.pre.main.sr # ResetBlock.sr
    /\ dlast.pre.main.dr # ResetBlock.dr

\* C20: DualI2sDriver::reset_clocks() snapshots CR2, I2SCFGR and I2SPR of
\* both the main and the ext core before issuing exactly one bus reset, and
\* when it returns all six registers hold their pre-call values: it never
\* returns with only one of the two cores restored.
C20_DualResetClocksRestoresBoth ==
    (dlast.op = "reset_clocks" /\ dual)
    => /\ dlast.resets = 1
       /\ Restored("main")
       /\ Restored("ext")

\* reset_clocks was called on a dual master driver with both cores enabled,
\* a programmed prescaler and interrupt or DMA bits set in both CR2
C20_Witness ==
    /\ dlast.op = "reset_clocks" /\ dual
    /\ dlast.pre.main.i2scfgr.i2se /\ dlast.pre.ext.i2scfgr.i2se
    /\ dlast.pre.main.i2spr # I2sprReset
    /\ dlast.pre.ext.i2spr # I2sprReset
    /\ dlast.pre.main.cr2.rxneie
    /\ dlast.pre.ext.cr2.txdmaen
    /\ dlast.pre.ext.sr # ResetBlock.sr

\* ------------------------------------------------------------------------
\* C21: release(), called on a driver in any state (enabled, interrupts and
\* DMA requests on, flags raised, a word in the data register), leaves every
\* register of the peripheral at its bus-reset value, the enable bit clear,
\* and no driver owning the peripheral: the resource is back with the caller.
C21_ReleaseResets ==
    dlast.op = "release" =>
        /\ ~driver
        /\ dlast.resets = 1
        /\ regs = ResetRegs
        /\ \A part \in Parts : ~regs[part].i2scfgr.i2se

\* C21 witness: release() of an enabled driver whose control, status and
\* data registers had all left their reset values
C21_Witness ==
    /\ dlast.op = "release"
    /\ ~driver
    /\ dlast.pre.main.i2scfgr.i2se
    /\ dlast.pre.main.cr2 # Cr2Reset
    /\ dlast.pre.main.i2spr # I2sprReset
    /\ dlast.pre.main.sr # ResetBlock.sr
    /\ dlast.pre.main.dr # ResetBlock.dr

\* ------------------------------------------------------------------------
\* Actions of the I2s handle (lib.rs, ehal.rs)

\* data_format and frame_format of the MasterConfig / SlaveConfig values
\* given to configure_*
I2sConfigs ==
    {<<"Data16Frame16", "PhilipsI2s">>, <<"Data16Frame32", "Pcm">>,
     <<"Data24Frame32", "MsbJustified">>, <<"Data24Frame32", "LsbJustified">>,
     <<"Data32Frame32", "PhilipsI2s">>}

\* a handle in the given mode is in the caller's hands
Handle(mode) == handles >= 1 /\ imode = mode /\ icall = NoCall

\* the registers and the observation after a call or poll with result r
IApply(op, r, c) ==
    /\ iregs' = [i2se |-> r.i2se, conf |-> r.conf]
    /\ ilast' = [op |-> op, ret |-> r.ret, ev |-> r.ev, st |-> r.st,
                 out |-> r.out, word |-> r.word, pre |-> iregs,
                 mode |-> imode, at |-> icall.pos, call |-> c]
    /\ UNCHANGED <<tvars, dvars, fvars, lvars>>

\* a method on &mut self that returns at once
ICall(op, r) ==
    /\ IApply(op, r, NoCall)
    /\ UNCHANGED <<instance, handles, imode, idata, iframe, icall>>

\* I2s::new moves the Instance into the handle
i2s_new ==
    /\ instance
    /\ instance' = FALSE
    /\ handles' = handles + 1
    /\ imode' = "Init"
    /\ iframe' = "PhilipsI2s"
    /\ IApply("new", IRes0, NoCall)
    /\ UNCHANGED <<idata, icall>>

\* variant of configure_* that leaves the InitMode handle alive
Configure_KeepsSelf(op, mode) ==
    /\ Handle("Init")
    /\ \E config \in I2sConfigs :
          /\ idata' = config[1]
          /\ iframe' = config[2]
    /\ handles' = handles + 1
    /\ imode' = mode
    /\ IApply(op, [IRes0 EXCEPT !.i2se = FALSE, !.conf = TRUE], NoCall)
    /\ UNCHANGED <<instance, icall>>

\* I2s<I, InitMode>::configure_*: configure_clock_division (masters, with
\* the division MasterConfig has validated) and configure_i2s write the
\* configuration with I2SE clear; self is consumed, the new handle takes
\* the Instance and the frame format of the configuration
Configure(op, mode) ==
    /\ Handle("Init")
    /\ \E config \in I2sConfigs :
          /\ idata' = config[1]
          /\ iframe' = config[2]
    /\ handles' = (handles - 1) + 1
    /\ imode' = mode
    /\ IApply(op, [IRes0 EXCEPT !.i2se = FALSE, !.conf = TRUE], NoCall)
    /\ UNCHANGED <<instance, icall>>

configure_master_transmit == Configure("configure_master_transmit", "Transmit")
configure_master_receive == Configure("configure_master_receive", "Receive")
configure_slave_transmit == Configure("configure_slave_transmit", "Transmit")
configure_slave_receive == Configure("configure_slave_receive", "Receive")

\* I2s<I, TransmitMode<F>>::enable / I2s<I, ReceiveMode<F>>::enable
i2s_enable ==
    /\ Handle("Transmit") \/ Handle("Receive")
    /\ ICall("enable", common_enable(IRes0))

\* I2s<I, TransmitMode<F>>::disable / I2s<I, ReceiveMode<F>>::disable
i2s_disable ==
    /\ Handle("Transmit") \/ Handle("Receive")
    /\ IF imode = "Transmit"
       THEN \E sr \in DisableSr :
               ICall("disable", TransmitMode_disable(IRes0, sr))
       ELSE ICall("disable", ReceiveMode_disable(IRes0))

\* deconfigure after a step with result r
Deconfigure(r) ==
    LET c == [NoCall EXCEPT !.op = "deconfigure", !.pos = "disable"]
    IN /\ IApply("deconfigure", r, c)
       /\ IF r.ret = "Return"
          THEN /\ handles' = (handles - 1) + 1
               /\ imode' = "Init"
               /\ iframe' = "PhilipsI2s"
               /\ icall' = NoCall
          ELSE /\ icall' = c
               /\ UNCHANGED <<handles, imode, iframe>>
       /\ UNCHANGED <<instance, idata>>

\* deconfigure: in transmit mode each step is one poll of the blocking
\* disable; when it returns, self is consumed and an InitMode handle with
\* the default frame format takes the Instance
i2s_deconfigure ==
    /\ handles >= 1
    /\ imode \in {"Transmit", "Receive"}
    /\ icall = NoCall \/ icall.op = "deconfigure"
    /\ IF imode = "Transmit"
       THEN \E sr \in DisableSr :
               Deconfigure(TransmitMode_deconfigure(IRes0, sr))
       ELSE Deconfigure(ReceiveMode_deconfigure(IRes0))

\* take_error of either mode
i2s_take_error ==
    /\ Handle("Transmit") \/ Handle("Receive")
    /\ IF imode = "Transmit"
       THEN \E sr \in UnderrunSr :
               ICall("take_error", TransmitMode_take_error(IRes0, sr))
       ELSE \E sr \in ReceiveSr, dr \in DrValues :
               ICall("take_error", ReceiveMode_take_error(IRes0, sr, dr))

\* I2s<I, TransmitMode<F>>::write_data_register
i2s_write_data_register ==
    /\ Handle("Transmit")
    /\ \E sr \in TransmitSr, value \in DrValues :
          ICall("write_data_register", write_data_register(IRes0, sr, value))

\* the call of transmit(sample) as it stands after a step with result r
Transmitting(c, r) ==
    [c EXCEPT !.pos = IF r.ret = "Wait" THEN "wait" ELSE "done",
              !.pending = IF r.ret = "Wait" THEN r.pending ELSE <<>>,
              !.out = @ \o r.out]

\* I2s<I, TransmitMode<F>>::transmit: returns at once, or stays in the
\* busy-wait of write_two_steps
i2s_transmit ==
    /\ Handle("Transmit")
    /\ \E sr \in TransmitSr, sample \in TransmitSamples :
          LET r == TransmitMode_transmit(IRes0, sr,
                                         write_sample(idata, iframe, sample))
              c == Transmitting([NoCall EXCEPT !.op = "transmit",
                                               !.arg = sample], r)
          IN /\ IApply("transmit", r, c)
             /\ icall' = IF r.ret = "Wait" THEN c ELSE NoCall
    /\ UNCHANGED <<instance, handles, imode, idata, iframe>>

\* one iteration of the busy-wait of a transmit call
i2s_transmit_wait ==
    /\ handles >= 1
    /\ icall.op = "transmit"
    /\ \E sr \in TransmitSr :
          LET r == write_two_steps(IRes0, sr, icall.pending)
              c == Transmitting(icall, r)
          IN /\ IApply("transmit", r, c)
             /\ icall' = IF r.ret = "Wait" THEN c ELSE NoCall
    /\ UNCHANGED <<instance, handles, imode, idata, iframe>>

\* try_write_iter: the number of pairs `zip` yields
Pairs(c) == IF c.nl < c.nr THEN c.nl ELSE c.nr

\* the sample the loop body transmits next: the start channel goes first
CurrentSample(c) ==
    IF (c.start = "Left") = (c.half = 1)
    THEN LeftWord(c.k + 1)
    ELSE RightWord(c.k + 1)

\* the step result of a loop that goes on
Continue(c, r) == [c |-> c, r |-> [r EXCEPT !.ret = "Continue"]]

\* variant of the loop body with one error check per pair
SampleDone_OneCheck(c, r) ==
    LET c1 == [c EXCEPT !.sent = @ \o <<CurrentSample(c)>>,
                        !.out = @ \o r.out, !.pending = <<>>]
    IN IF c.half = 1
       THEN Continue([c1 EXCEPT !.half = 2, !.pos = "tx"], r)
       ELSE IF c.k + 1 = Pairs(c)
            THEN [c |-> [c1 EXCEPT !.k = @ + 1, !.pos = "done"],
                  r |-> [r EXCEPT !.ret = "Ok"]]
            ELSE Continue([c1 EXCEPT !.k = @ + 1, !.half = 1, !.pos = "err"], r)

\* try_write_iter, after `nb::block!(self.transmit(word)).unwrap()` has
\* returned: on to the error check before the other word of the pair, to
\* the next pair, or to `Ok(())` when zip is exhausted
SampleDone(c, r) ==
    LET c1 == [c EXCEPT !.sent = @ \o <<CurrentSample(c)>>,
                        !.out = @ \o r.out, !.pending = <<>>]
    IN IF c.half = 1
       THEN Continue([c1 EXCEPT !.half = 2, !.pos = "err"], r)
       ELSE IF c.k + 1 = Pairs(c)
            THEN [c |-> [c1 EXCEPT !.k = @ + 1, !.pos = "done"],
                  r |-> [r EXCEPT !.ret = "Ok"]]
            ELSE Continue([c1 EXCEPT !.k = @ + 1, !.half = 1, !.pos = "err"], r)

\* block_until_ready_to_transmit: one poll of ready_to_transmit; with the
\* start channel known the loop over the pairs begins, or ends at once
ReadyStep(c, r) ==
    IF r.ret = "None"
    THEN Continue(c, r)
    ELSE IF Pairs(c) = 0
         THEN [c |-> [c EXCEPT !.start = r.ret, !.pos = "done"],
               r |-> [r EXCEPT !.ret = "Ok"]]
         ELSE Continue([c EXCEPT !.start = r.ret, !.pos = "err"], r)

\* `self.take_error()?` of the loop body
ErrorStep(c, r) ==
    IF r.ret = "Underrun"
    THEN [c |-> [c EXCEPT !.pos = "done"], r |-> r]
    ELSE Continue([c EXCEPT !.pos = "tx", !.checks = @ + 1], r)

\* one poll of `nb::block!(self.transmit(word))`, or one iteration of the
\* busy-wait inside it
TransmitStep(c, r) ==
    CASE r.ret = "WouldBlock" -> Continue(c, r)
      [] r.ret = "Wait" ->
            Continue([c EXCEPT !.pos = "wait", !.pending = r.pending,
                               !.out = @ \o r.out], r)
      [] OTHER -> SampleDone(c, r)

\* WriteIter::try_write_iter after its first statement: one status read
\* and what follows it
try_write_iter_step(c, sr) ==
    CASE c.pos = "ready" -> ReadyStep(c, ready_to_transmit(IRes0, sr))
      [] c.pos = "err" -> ErrorStep(c, TransmitMode_take_error(IRes0, sr))
      [] c.pos = "tx" ->
            TransmitStep(c, TransmitMode_transmit(IRes0, sr,
                            write_sample(idata, iframe, CurrentSample(c))))
      [] c.pos = "wait" ->
            LET r == write_two_steps(IRes0, sr, c.pending)
            IN IF r.ret = "Wait" THEN Continue(c, r) ELSE SampleDone(c, r)

\* the flags the status read at a position is tested for
PollSr(pos) ==
    CASE pos = "ready" -> ReadySr
      [] pos = "err" -> UnderrunSr
      [] OTHER -> TransmitSr

\* entry of try_write_iter: `let _ = self.take_error();`
TryWrite(op) ==
    /\ Handle("Transmit")
    /\ \E sr \in UnderrunSr, nl \in 0..MaxWords, nr \in 0..MaxWords :
          LET r == TransmitMode_take_error(IRes0, sr)
              c == [NoCall EXCEPT !.op = op, !.pos = "ready", !.nl = nl,
                                  !.nr = nr, !.discarded = (r.ret = "Underrun")]
          IN /\ IApply(op, [r EXCEPT !.ret = "Continue"], c)
             /\ icall' = c
    /\ UNCHANGED <<instance, handles, imode, idata, iframe>>

\* Write::try_write hands its slices to try_write_iter
try_write == TryWrite("try_write")

\* WriteIter::try_write_iter
try_write_iter == TryWrite("try_write_iter")

\* try_write_iter from block_until_ready_to_transmit on, one status read
\* at a time
try_write_iter_poll ==
    /\ handles >= 1
    /\ icall.op \in {"try_write", "try_write_iter"}
    /\ \E sr \in PollSr(icall.pos) :
          LET s == try_write_iter_step(icall, sr)
          IN /\ IApply(icall.op, s.r, s.c)
             /\ icall' = IF s.c.pos = "done" THEN NoCall ELSE s.c
    /\ UNCHANGED <<instance, handles, imode, idata, iframe>>

InitI2s ==
    /\ TransferUnused
    /\ DriverUnused
    /\ LibUnused
    /\ FormatUnused
    /\ instance = TRUE
    /\ handles = 0
    /\ imode = "Init"
    /\ idata = "Data16Frame16"
    /\ iframe = "PhilipsI2s"
    /\ iregs = [i2se |-> FALSE, conf |-> FALSE]
    /\ icall = NoCall
    /\ ilast = NoI2sOp

NextI2s ==
    \/ i2s_new
    \/ configure_master_transmit
    \/ configure_master_receive
    \/ configure_slave_transmit
    \/ configure_slave_receive
    \/ i2s_enable
    \/ i2s_disable
    \/ i2s_deconfigure
    \/ i2s_take_error
    \/ i2s_write_data_register
    \/ i2s_transmit
    \/ i2s_transmit_wait
    \/ try_write
    \/ try_write_iter
    \/ try_write_iter_poll

SpecI2s == InitI2s /\ [][NextI2s]_vars

\* ------------------------------------------------------------------------
\* The sample codec at work: a sample is written as words and the words
\* are read back as a sample; a frame goes through the 32 bit Transfer.

TwoWordFormats == {"Data24Frame32", "Data32Frame32"}

InitFormat ==
    /\ TransferUnused
    /\ DriverUnused
    /\ I2sUnused
    /\ LibUnused
    /\ \/ \E d \in TwoWordFormats, ff \in FrameFormats, s \in SampleValues :
             flast = GivenSample(d, ff, s)
       \/ \E d \in TwoWordFormats, ff \in FrameFormats,
             w \in WordValues \X WordValues :
             flast = GivenWords(d, ff, w)
       \/ \E l \in SampleValues, r \in RightValues :
             flast = GivenFrame(<<l, r>>)

\* F::write_sample of the sample given
format_write_sample ==
    /\ flast.op = "sample"
    /\ flast' = [flast EXCEPT
                    !.op = "written",
                    !.words = write_sample(flast.data, flast.format,
                                           flast.sample)]
    /\ UNCHANGED <<tvars, dvars, ivars, lvars>>

\* F::read_sample of the words a write_sample has put on the wire
format_read_back ==
    /\ flast.op = "written"
    /\ flast' = [flast EXCEPT
                    !.op = "read_back",
                    !.back = read_sample(flast.data, flast.format,
                                         flast.words)]
    /\ UNCHANGED <<tvars, dvars, ivars, lvars>>

\* F::read_sample of any two words
format_read_sample ==
    /\ flast.op = "words"
    /\ flast' = [flast EXCEPT
                    !.op = "read",
                    !.back = read_sample(flast.data, flast.format,
                                         flast.words)]
    /\ UNCHANGED <<tvars, dvars, ivars, lvars>>

\* the four data register writes of write_iter for the frame given
transfer_write_frame ==
    /\ flast.op = "frame"
    /\ flast' = [flast EXCEPT !.op = "frame_written",
                              !.words = MasterTransmit32_words(flast.frame)]
    /\ UNCHANGED <<tvars, dvars, ivars, lvars>>

\* the frame read returns after these four words
transfer_read_frame ==
    /\ flast.op = "frame_written"
    /\ flast' = [flast EXCEPT !.op = "frame_read",
                              !.back_frame = MasterReceive32_frame(flast.words)]
    /\ UNCHANGED <<tvars, dvars, ivars, lvars>>

NextFormat ==
    \/ format_write_sample
    \/ format_read_back
    \/ format_read_sample
    \/ transfer_write_frame
    \/ transfer_read_frame

SpecFormat == InitFormat /\ [][NextFormat]_vars

\* ------------------------------------------------------------------------
\* Properties of the I2s handle and of the sample codec

C23_DisableWaitsForIdle ==
    /\ (ilast.op = "disable" /\ ilast.mode = "Transmit") =>
          /\ ilast.st # <<>>
          /\ (ilast.ret = "Ok") = (ilast.st[1].txe /\ ~ilast.st[1].bsy)
          /\ ilast.ret = "Ok" =>
                ilast.ev = <<"sr", "dis">> /\ ~iregs.i2se
          /\ ilast.ret # "Ok" =>
                /\ ilast.ret = "WouldBlock"
                /\ ilast.ev = <<"sr">>
                /\ iregs = ilast.pre
    /\ (ilast.op = "deconfigure" /\ ilast.mode = "Transmit") =>
          /\ ilast.st # <<>>
          /\ (ilast.ret = "Return") = (ilast.st[1].txe /\ ~ilast.st[1].bsy)
          /\ ilast.ret = "Return" =>
                /\ ilast.ev = <<"sr", "dis", "rst">>
                /\ iregs = [i2se |-> FALSE, conf |-> FALSE]
                /\ imode = "Init"
          /\ ilast.ret # "Return" =>
                /\ ilast.ev = <<"sr">>
                /\ iregs = ilast.pre
                /\ imode = "Transmit"
                /\ icall.op = "deconfigure"
    /\ (ilast.op = "disable" /\ ilast.mode = "Receive") =>
          ilast.ev = <<"dis">> /\ ~iregs.i2se
    /\ (ilast.op = "deconfigure" /\ ilast.mode = "Receive") =>
          /\ ilast.ev = <<"dis", "rst">>
          /\ iregs = [i2se |-> FALSE, conf |-> FALSE]
          /\ imode = "Init"

\* C23 witness: deconfigure() of an enabled transmit handle polls while the
\* transmit buffer is empty but the peripheral is still busy, and waits
C23_Witness ==
    /\ ilast.op = "deconfigure" /\ ilast.mode = "Transmit"
    /\ ilast.pre.i2se
    /\ ilast.st # <<>> /\ ilast.st[1].txe /\ ilast.st[1].bsy
    /\ ilast.ret = "Continue"
    /\ iregs.i2se /\ iregs.conf

\* the low 24 bits of a sample, sign-extended from bit 23
SignExtend24(s) ==
    LET low == s % 16777216
    IN IF low >= 8388608 THEN low - 16777216 ELSE low

\* C24: for every 32 bit sample and both justifications, reading back the
\* two words a 24-in-32 write produced returns the low 24 bits of the
\* sample sign-extended from bit 23 to 32 bits.
C24_RoundTripSignExtends ==
    (flast.op = "read_back" /\ flast.data = "Data24Frame32") =>
        flast.back = SignExtend24(flast.sample)

\* C24 witness: an LSB-justified round trip of a sample whose bit 23 is set
\* and whose bits 31..24 are not all ones, and an MSB-justified one exists
\* for the same sample
C24_Witness ==
    /\ flast.op = "read_back" /\ flast.data = "Data24Frame32"
    /\ flast.format = "LsbJustified"
    /\ flast.sample > 0
    /\ flast.back < 0
    /\ build_sample_msb_justified(split_sample_msb_justified(flast.sample))
          = flast.back

\* C25: a 24-in-32 write ignores bits 31..24 of the sample and zero-fills
\* the pad byte.  MSB-justified family: word 1 is bits 23..8, word 2 is
\* bits 7..0 in its high byte with its low byte 0.  LSB-justified: word 1 is
\* bits 23..16 in its low byte with its high byte 0, word 2 is bits 15..0.
\* Samples that agree on their low 24 bits give the same two words.
C25_EncodingIgnoresTopByte ==
    (flast.op = "written" /\ flast.data = "Data24Frame32") =>
        LET low == flast.sample % 16777216 IN
        /\ Len(flast.words) = 2
        /\ flast.format = "LsbJustified" =>
              /\ flast.words[1] = low \div 65536
              /\ flast.words[1] < 256
              /\ flast.words[2] = low % 65536
        /\ flast.format # "LsbJustified" =>
              /\ flast.words[1] = low \div 256
              /\ flast.words[2] = (low % 256) * 256
              /\ flast.words[2] % 256 = 0
        /\ \A t \in SampleValues :
              t % 16777216 = low =>
                 write_sample(flast.data, flast.format, t) = flast.words

\* C25 witness: an LSB-justified write of a negative sample whose bits
\* 31..24 differ from bit 23 and whose three low bytes are all non-zero
C25_Witness ==
    /\ flast.op = "written" /\ flast.data = "Data24Frame32"
    /\ flast.format = "LsbJustified"
    /\ flast.sample < 0
    /\ flast.sample % 16777216 < 8388608
    /\ flast.words[1] # 0
    /\ flast.words[2] \div 256 # 0 /\ flast.words[2] % 256 # 0

\* the 24 bit value of the three bytes of two words that are not padding
Value24(format, w) ==
    IF format = "LsbJustified"
    THEN (w[1] % 256) * 65536 + w[2]
    ELSE w[1] * 256 + (w[2] \div 256)

\* C26: a 24-in-32 read ignores the pad byte of the words (low byte of word
\* 2 for the MSB-justified family, high byte of word 1 for LSB-justified):
\* its low 24 bits are the three other bytes, its bits 31..24 all equal bit
\* 23 of that value, and words differing in the pad byte alone read alike.
C26_DecodingIgnoresPadByte ==
    (flast.op = "read" /\ flast.data = "Data24Frame32") =>
        LET v == Value24(flast.format, flast.words) IN
        /\ flast.back % 16777216 = v
        /\ (flast.back \div 16777216) % 256 = (IF v >= 8388608 THEN 255 ELSE 0)
        /\ \A w \in WordValues \X WordValues :
              Value24(flast.format, w) = v =>
                 read_sample(flast.data, flast.format, w) = flast.back

\* C26 witness: an LSB-justified read of words with a non-zero pad byte
\* and bit 23 clear
C26_Witness ==
    /\ flast.op = "read" /\ flast.data = "Data24Frame32"
    /\ flast.format = "LsbJustified"
    /\ flast.words[1] \div 256 = 255
    /\ (flast.words[1] % 256) = 127
    /\ flast.back > 0

\* the 32 bits of a sample read as unsigned, halved: its high and low 16
\* bits (two's complement: a negative sample is 2^32 less than its pattern)
UnsignedHalves(s) ==
    IF s < 0
    THEN LET m == (s + 2147483647) + 1
         IN <<32768 + (m \div 65536), m % 65536>>
    ELSE <<s \div 65536, s % 65536>>

\* C27: a 32-in-32 sample is written as two words, high 16 bits then low
\* 16 bits; the Transfer writes a frame (l, r) as l_high, l_low, r_high,
\* r_low; reading the words back as (word1 << 16) | word2, with no sign
\* extension, returns the sample or frame written, negative values
\* included.
C27_HighWordFirstRoundTrip ==
    /\ (flast.op \in {"written", "read_back"} /\ flast.data = "Data32Frame32") =>
          flast.words = UnsignedHalves(flast.sample)
    /\ (flast.op = "read_back" /\ flast.data = "Data32Frame32") =>
          flast.back = flast.sample
    /\ flast.op \in {"frame_written", "frame_read"} =>
          flast.words = UnsignedHalves(flast.frame[1])
                           \o UnsignedHalves(flast.frame[2])
    /\ flast.op = "frame_read" => flast.back_frame = flast.frame

\* C27 witness: a frame of two negative samples whose low words have their
\* top bit set went through the Transfer
C27_Witness ==
    /\ flast.op = "frame_read"
    /\ flast.frame[1] < 0 /\ flast.frame[2] < 0
    /\ flast.frame[1] # flast.frame[2]
    /\ flast.words[2] >= 32768 /\ flast.words[4] >= 32768
    /\ flast.words[1] # 65535

\* C28: receive-mode take_error() returns Ok iff neither overrun nor frame
\* error is flagged, Frame iff only frame error is, Overrun(w) iff only
\* overrun is, FrameAndOverrun(w) iff both are, w being the data register
\* value read in the call.  With overrun flagged it reads the data register
\* and then the status register; otherwise it does not read the data
\* register.  Transmit-mode take_error() returns Underrun iff the underrun
\* flag is set, Ok otherwise.
C28_TakeErrorReports ==
    /\ (ilast.op = "take_error" /\ ilast.mode = "Receive") =>
          /\ ilast.st # <<>>
          /\ LET ovr == ilast.st[1].ovr
                 fre == ilast.st[1].fre
             IN /\ (ilast.ret = "Ok") = (~ovr /\ ~fre)
                /\ (ilast.ret = "Frame") = (~ovr /\ fre)
                /\ (ilast.ret = "Overrun") = (ovr /\ ~fre)
                /\ (ilast.ret = "FrameAndOverrun") = (ovr /\ fre)
                /\ ovr => /\ ilast.ev = <<"sr", "drr", "sr">>
                          /\ Len(ilast.word) = 1
                          /\ ilast.word[1] \in DrValues
                /\ ~ovr => ilast.ev = <<"sr">> /\ ilast.word = <<>>
          /\ iregs = ilast.pre
    /\ (ilast.op = "take_error" /\ ilast.mode = "Transmit") =>
          /\ ilast.st # <<>>
          /\ (ilast.ret = "Underrun") = ilast.st[1].udr
          /\ (ilast.ret = "Ok") = ~ilast.st[1].udr
          /\ ilast.ev = <<"sr">>

\* C28 witness: a receive-mode take_error() found both flags and returned
\* the word it read from the data register
C28_Witness ==
    /\ ilast.op = "take_error" /\ ilast.mode = "Receive"
    /\ ilast.ret = "FrameAndOverrun"
    /\ ilast.word = <<65535>>
    /\ iregs.i2se

\* a call or poll of the transmit path
TransmitPoll ==
    ilast.op \in {"transmit", "write_data_register", "try_write",
                  "try_write_iter"}

\* C29: transmit(sample) and write_data_register(value) write the data
\* register only in a call whose status read shows TXE set, and return
\* WouldBlock without writing otherwise.  A two-word sample has its second
\* word written only by a later status read that shows TXE set again, one
\* word per such read, so a transmit that returns has written all the words
\* of the sample in order, or none.
C29_WriteOnlyWhenEmpty ==
    /\ TransmitPoll =>
          /\ ilast.out # <<>> => ilast.st # <<>> /\ ilast.st[1].txe
          /\ Len(ilast.out) <= 1
          /\ Len(ilast.out) = CountEv(ilast.ev, "drw")
    /\ (ilast.op \in {"transmit", "write_data_register"} /\ ilast.at = "none") =>
          /\ ~ilast.st[1].txe =>
                ilast.ret = "WouldBlock" /\ ilast.out = <<>> /\ icall = NoCall
          /\ ilast.st[1].txe => ilast.ret \in {"Ok", "Wait"} /\ Len(ilast.out) = 1
    /\ (ilast.op = "transmit" /\ ilast.at = "wait") =>
          (ilast.ret = "Ok") = ilast.st[1].txe
    /\ (ilast.op = "transmit" /\ ilast.ret = "Ok") =>
          /\ ilast.call.out = write_sample(idata, iframe, ilast.call.arg)
          /\ icall = NoCall
    /\ (ilast.op = "transmit" /\ ilast.ret = "Wait") =>
          /\ icall.op = "transmit"
          /\ ilast.call.out \o ilast.call.pending
                = write_sample(idata, iframe, ilast.call.arg)
          /\ Len(ilast.call.out) = 1
    /\ (ilast.op = "write_data_register" /\ ilast.ret = "Ok") =>
          ilast.ev = <<"sr", "drw">>

\* C29 witness: a transmit of a 24 bit sample wrote its second word, from
\* the busy-wait, and returned
C29_Witness ==
    /\ ilast.op = "transmit" /\ ilast.at = "wait" /\ ilast.ret = "Ok"
    /\ idata = "Data24Frame32" /\ iframe = "MsbJustified"
    /\ ilast.call.arg = -1
    /\ ilast.call.out = <<65535, 65280>>
    /\ ilast.out = <<65280>>

RECURSIVE WordsOf(_)
\* the words of a sequence of samples, in order
WordsOf(samples) ==
    IF samples = <<>> THEN <<>>
    ELSE write_sample(idata, iframe, Head(samples)) \o WordsOf(Tail(samples))

\* the samples of n pairs in the order of the start channel, left_words
\* being 1, 2, .. and right_words -1, -2, ..
PairsInOrder(start, n) ==
    [i \in 1..(2 * n) |->
        LET k == (i + 1) \div 2
        IN IF (i % 2 = 1) = (start = "Left") THEN k ELSE 0 - k]

\* C30: try_write_iter / try_write discard an underrun flagged before the
\* call; they return Err(Underrun) exactly at an error check, made before
\* each word of a pair, that finds the flag, and write nothing after it;
\* they return Ok only with min(|left|, |right|) pairs written in full, the
\* start channel first, each word behind a check that found no underrun.
C30_TryWriteStopsAtUnderrun ==
    (ilast.op \in {"try_write", "try_write_iter"}) =>
        LET c == ilast.call
            all == PairsInOrder(c.start, Pairs(c))
        IN /\ ilast.at = "none" =>
                 /\ c.discarded = ilast.st[1].udr
                 /\ ilast.ret = "Continue" /\ icall = c /\ c.pos = "ready"
                 /\ ilast.out = <<>>
           /\ ilast.at = "err" =>
                 /\ (ilast.ret = "Underrun") = ilast.st[1].udr
                 /\ ilast.out = <<>>
           /\ ilast.ret = "Underrun" => ilast.at = "err"
           /\ ilast.ret \in {"Ok", "Underrun"} =>
                 /\ icall = NoCall
                 /\ c.pending = <<>>
           /\ ilast.ret = "Ok" => c.sent = all
           /\ ilast.ret = "Underrun" => Len(c.sent) < Len(all)
           /\ ilast.ret = "Continue" =>
                 /\ icall = c
                 /\ c.pos # "ready" => Len(c.sent) < Len(all)
           /\ Len(c.sent) <= Len(all)
           /\ c.sent = SubSeq(all, 1, Len(c.sent))
           /\ c.out \o c.pending = WordsOf(c.sent)
                                      \o (IF c.pending = <<>> THEN <<>>
                                          ELSE write_sample(idata, iframe,
                                                            all[Len(c.sent) + 1]))
           /\ c.checks = Len(c.sent) + (IF c.pos \in {"tx", "wait"} THEN 1 ELSE 0)

\* C30 witness: a call that discarded an earlier underrun, started with the
\* right channel on slices of unequal length, wrote three two-word samples
\* and returned Err(Underrun) at the check before the fourth
C30_Witness ==
    /\ ilast.op = "try_write" /\ ilast.ret = "Underrun"
    /\ ilast.call.discarded
    /\ ilast.call.start = "Right"
    /\ ilast.call.nl = MaxWords /\ ilast.call.nr = 2
    /\ ilast.call.sent = <<-1, 1, -2>>
    /\ Len(ilast.call.out) = 6

\* ------------------------------------------------------------------------
\* The constructors of MasterConfig (v12x/config.rs)

\* input clocks: 2, 3, 4, 511, 512 and 513 times the divisors 32, 64 and 256
FrequencyValues ==
    {ToU32(q * d) : q \in {2, 3, 4, 511, 512, 513}, d \in {32, 64, 256}}

\* sample rates: none, one, 2^26 + 1 and 2^31 + 1 samples per second
SampleRateValues == {<<0, 0>>, <<0, 1>>, <<1024, 1>>, <<32768, 1>>}

\* division arguments around the two ends of DIVISION_RANGE
DivisionValues == {0, 3, 4, 5, 511, 512, 65535}

MasterDataFormats == {"Data16Frame16", "Data32Frame32"}

Polarities == {"IdleLow", "IdleHigh"}

\* the other machines do not exist; the build profile is any
InitMasterConfig ==
    /\ TransferUnused
    /\ overflow_checks \in BOOLEAN
    /\ dual = FALSE
    /\ cfg = NoConfig
    /\ driver = FALSE
    /\ i2s_freq = <<0, 0>>
    /\ regs = ResetRegs
    /\ dlast = NoOp("none")
    /\ I2sUnused
    /\ FormatUnused
    /\ LibUnused

\* a call of MasterConfig::with_division
master_with_division ==
    /\ \E division \in DivisionValues, f \in MasterDataFormats,
          p \in Polarities, mc \in BOOLEAN :
          mlast' = [op |-> "with_division", frequency_in |-> <<0, 0>>,
                    sample_rate |-> <<0, 0>>, arg |-> division,
                    quotient |-> [panic |-> "none", v |-> <<0, 0>>],
                    ret |-> with_division(division, f, "PhilipsI2s", p, mc)]
    /\ UNCHANGED <<tvars, dvars, ivars, fvars, modes, formats, frame_formats,
                   xlast>>

\* a call of MasterConfig::with_sample_rate
master_with_sample_rate ==
    /\ \E frequency_in \in FrequencyValues, sample_rate \in SampleRateValues,
          f \in MasterDataFormats, p \in Polarities, mc \in BOOLEAN :
          mlast' = [op |-> "with_sample_rate", frequency_in |-> frequency_in,
                    sample_rate |-> sample_rate, arg |-> 0,
                    quotient |-> Quotient(frequency_in, sample_rate, f, mc),
                    ret |-> with_sample_rate(frequency_in, sample_rate, f,
                                             "PhilipsI2s", p, mc)]
    /\ UNCHANGED <<tvars, dvars, ivars, fvars, modes, formats, frame_formats,
                   xlast>>

NextMasterConfig == master_with_division \/ master_with_sample_rate

SpecMasterConfig == InitMasterConfig /\ [][NextMasterConfig]_vars

\* ------------------------------------------------------------------------
\* C31

\* the quotient of the last with_sample_rate call was computed and is q
QuotientIs(q) ==
    /\ mlast.op = "with_sample_rate"
    /\ mlast.quotient.panic = "none"
    /\ mlast.quotient.v = ToU32(q)

\* the last with_sample_rate call computed a quotient of which neither it
\* nor a neighbour is in DIVISION_RANGE
NoNeighbourValid ==
    \/ WLt(mlast.quotient.v, <<0, 3>>)
    \/ WLt(<<0, 512>>, mlast.quotient.v)

MasterWriteIter ==
    /\ live /\ ms = "Master" /\ tr = "Transmit"
    /\ last.op = "write_iter"

\* the words written since the last frame was taken, before the last step
PreEmitted == SubSeq(emitted, 1, Len(emitted) - Len(last.out))

\* the words e are the first words of the stored frame, which is the frame
\* taken last, and the position fs is the one after them
InOrder(e, fs) ==
    /\ accepted = frame
    /\ IsPrefix(e, FrameWords(frame))
    /\ Len(e) % FrameLen = Cursor(fs)

\* C32: the loop of a master transmit write_iter returns only in an iteration
\* that found TXE set at position 0 and the iterator exhausted, and that
\* iteration writes nothing.  A frame is taken from the iterator only at
\* position 0, with TXE set, and becomes the stored frame; every word written
\* follows a status read with TXE set, is the word of the stored frame at the
\* position before the write, and moves the position on by one.  So the words
\* written for a frame taken from the iterator are its words in order, all
\* frame_len of them before the next frame is taken or the call returns.
C32_ReturnsAtFrameBoundary ==
    MasterWriteIter =>
       /\ last.st # <<>>
       /\ last.ret \in {"Continue", "Return"}
       /\ last.ret = "Return" =>
             /\ last.st[1].txe
             /\ last.preState = "LeftMsb" /\ frame_state = "LeftMsb"
             /\ remaining = 0 /\ call = "none"
             /\ last.out = <<>> /\ last.arg = NoFrame
       /\ last.ret = "Continue" => call = "write_iter"
       /\ last.arg # NoFrame =>
             /\ last.st[1].txe
             /\ last.preState = "LeftMsb"
             /\ frame = last.arg /\ accepted = last.arg
             /\ emitted = <<FrameWords(last.arg)[1]>>
             /\ last.out = emitted
       /\ last.arg = NoFrame => frame = last.preFrame
       /\ last.out # <<>> =>
             /\ last.st[1].txe
             /\ last.out = <<FrameWords(frame)[Cursor(last.preState) + 1]>>
             /\ Cursor(frame_state) = (Cursor(last.preState) + 1) % FrameLen
       /\ last.out = <<>> => frame_state = last.preState
       /\ (last.st[1].txe /\ last.ret = "Continue") => last.out # <<>>
       /\ (last.arg = NoFrame /\ InOrder(PreEmitted, last.preState)) =>
             InOrder(emitted, frame_state)
       /\ last.arg # NoFrame => InOrder(emitted, frame_state)

\* a master transmit write_iter over 32-bit frames returned after it wrote
\* the four words of the last frame of the iterator
C32_ReturnedAfterWholeFrame ==
    /\ MasterWriteIter
    /\ fmt = "Data32Channel32"
    /\ last.ret = "Return"
    /\ accepted = <<-1, 65538>>
    /\ emitted = <<65535, 65535, 1, 2>>

\* ------------------------------------------------------------------------
\* C33

\* the last step was an iteration of a slave transmit write_iter that took a
\* frame from the iterator and saw no frame error and no underrun, and the
\* call has not returned
SlaveTookFrame ==
    /\ Usable /\ call = "write_iter"
    /\ ms = "Slave" /\ tr = "Transmit"
    /\ last.op = "write_iter"
    /\ last.arg # NoFrame
    /\ last.st # <<>> => ~last.st[1].fre /\ ~last.st[1].udr

\* C33: a slave transmit write_iter that sees no frame error and no underrun
\* writes every frame of the iterator in full before it takes the next one
\* or returns, also when a synchronisation attempt fails: the iteration
\* after the one that took a frame (and wrote its first word) neither takes
\* another frame nor returns.
C33_EveryFrameInFull ==
    [][SlaveTookFrame => last'.arg = NoFrame /\ last'.ret # "Return"]_vars

\* ------------------------------------------------------------------------
\* C34

\* the last step of a slave receive Transfer went from SYNCING to SYNCED
SlaveReceiveSynchronised ==
    /\ live /\ ms = "Slave" /\ tr = "Receive"
    /\ last.op \in {"read", "read_while"}
    /\ ~last.preSync /\ sync

\* C34: a step of a slave receive Transfer that goes from SYNCING to SYNCED
\* leaves the cursor at 0, so that the first word received afterwards is the
\* first word of a new frame, and the step after it delivers no frame (a
\* frame takes frame_len >= 2 words received since the transition).
C34_SynchronisedAtCursorZero ==
    [][/\ SlaveReceiveSynchronised' => Cursor(frame_state') = 0
       /\ (SlaveReceiveSynchronised /\ live') => last'.delivered = NoFrame]_vars

\* ------------------------------------------------------------------------
\* C35

\* C35: between the calls of a slave Transfer the enable bit of the
\* peripheral equals the sync flag: disabled in SYNCING, enabled in SYNCED.
C35_EnableEqualsSync ==
    (live /\ ms = "Slave" /\ call = "none") => (i2se = sync)

\* ------------------------------------------------------------------------
\* C36

\* the last step of a master receive Transfer saw the overrun flag, which
\* says that words of the wire were lost, and delivered no frame
MasterReceiveLoss ==
    /\ Usable /\ ms = "Master" /\ tr = "Receive"
    /\ last.op \in {"read", "read_while"}
    /\ last.st # <<>> /\ last.st[1].ovr
    /\ last.delivered = NoFrame

\* C36: a frame delivered by a master receive Transfer is built from the
\* words of one frame of the wire: the step after one that saw an overrun
\* delivers no frame, since the word it receives comes after the loss and
\* every other word of the stored frame was received before it.
C36_NoFrameAcrossLoss ==
    [][(MasterReceiveLoss /\ live') => last'.delivered = NoFrame]_vars

\* ------------------------------------------------------------------------
\* The blocking calls of a master Transfer on a peripheral that is served
\* in time: no word is lost, so no overrun is raised and the channel side of
\* a received word is the side of the position it has on the wire.  The
\* predicate of read_while is one that accepts the next `remaining` frames.

\* the side of the word the wire has at the position fs, TRUE meaning right
WireSide(fs) == fs \in {"RightMsb", "RightLsb"}

\* the status a poll reads: the ready flag as given, no error flag
TransmitStatus(ready) == [NoFlags EXCEPT !.txe = ready]

ReceiveStatus(ready) ==
    [NoFlags EXCEPT !.rxne = ready, !.chside = ready /\ WireSide(frame_state)]

\* a master Transfer as I2sTransferConfig::i2s_transfer builds it
InitBlocking ==
    /\ live = TRUE
    /\ ms = "Master" /\ tr \in Directions
    /\ std \in {s \in Standards : ChannelFlag(s)}
    /\ fmt \in {f \in DataFormats : Data16(f) \/ f = "Data32Channel32"}
    /\ frame = DefaultFrame
    /\ frame_state = "LeftMsb"
    /\ sync = FALSE
    /\ i2se = FALSE
    /\ call = "none"
    /\ remaining = 0
    /\ panicked = FALSE
    /\ last = NoStep("new", <<>>)
    /\ accepted = NoFrame
    /\ emitted = <<>>
    /\ sinceZero = 0
    /\ DriverUnused
    /\ I2sUnused
    /\ FormatUnused
    /\ LibUnused

\* Entry of read_while with a predicate that accepts the next n frames
read_while_enter_counted ==
    /\ Idle
    /\ tr = "Receive"
    /\ \E n \in 0..MaxIter :
          /\ call' = "read_while"
          /\ remaining' = n
    /\ Apply("read_while_enter", NoFrame, [Enable(Res0) EXCEPT !.ret = "None"])
    /\ UNCHANGED <<accepted, emitted, sinceZero>>

\* The Transfer after an iteration of read_while with result r: an accepted
\* frame is one less to accept
ReadCommit(r) ==
    /\ Apply("read_while", NoFrame, r)
    /\ call' = IF r.ret = "Return" THEN "none" ELSE call
    /\ remaining' = IF r.delivered # NoFrame /\ r.ret # "Return"
                       /\ remaining > 0
                    THEN remaining - 1 ELSE remaining
    /\ UNCHANGED <<accepted, emitted, sinceZero>>

MasterTransmit16_write_iter_poll ==
    /\ Usable /\ call = "write_iter"
    /\ tr = "Transmit" /\ Data16(fmt)
    /\ \E smpl \in NextSample, ready \in BOOLEAN :
          LET r == MasterTransmit16_write_iter(smpl, TransmitStatus(ready)) IN
          Commit("write_iter", Pulled(smpl, r), r)

MasterTransmit32_write_iter_poll ==
    /\ Usable /\ call = "write_iter"
    /\ tr = "Transmit" /\ fmt = "Data32Channel32"
    /\ \E smpl \in NextSample, ready \in BOOLEAN :
          LET r == MasterTransmit32_write_iter(smpl, TransmitStatus(ready)) IN
          Commit("write_iter", Pulled(smpl, r), r)

MasterReceive16_read_while_poll ==
    /\ Usable /\ call = "read_while"
    /\ tr = "Receive" /\ Data16(fmt)
    /\ \E data \in DrValues, ready \in BOOLEAN :
          ReadCommit(MasterReceive16_read_while(ReceiveStatus(ready), data,
                                                remaining > 0))

MasterReceive32_read_while_poll ==
    /\ Usable /\ call = "read_while"
    /\ tr = "Receive" /\ fmt = "Data32Channel32"
    /\ \E data \in DrValues, ready \in BOOLEAN :
          ReadCommit(MasterReceive32_read_while(ReceiveStatus(ready), data,
                                                remaining > 0))

\* an iteration that finds TXE set: the hardware sets it again after every
\* write of the data register
TransmitReady ==
    /\ Usable /\ call = "write_iter"
    /\ \E smpl \in NextSample :
          LET r == IF Data16(fmt)
                   THEN MasterTransmit16_write_iter(smpl, TransmitStatus(TRUE))
                   ELSE MasterTransmit32_write_iter(smpl, TransmitStatus(TRUE))
          IN Commit("write_iter", Pulled(smpl, r), r)

\* an iteration that finds RXNE set: the hardware sets it again after every
\* read of the data register
ReceiveReady ==
    /\ Usable /\ call = "read_while"
    /\ \E data \in DrValues :
          ReadCommit(IF Data16(fmt)
                     THEN MasterReceive16_read_while(ReceiveStatus(TRUE), data,
                                                     remaining > 0)
                     ELSE MasterReceive32_read_while(ReceiveStatus(TRUE), data,
                                                     remaining > 0))

NextBlocking ==
    \/ write_iter_enter
    \/ read_while_enter_counted
    \/ MasterTransmit16_write_iter_poll
    \/ MasterTransmit32_write_iter_poll
    \/ MasterReceive16_read_while_poll
    \/ MasterReceive32_read_while_poll

SpecBlocking ==
    /\ InitBlocking
    /\ [][NextBlocking]_vars
    /\ WF_vars(TransmitReady)
    /\ WF_vars(ReceiveReady)

\* ------------------------------------------------------------------------
\* C37

\* a blocking call of a master Transfer is in progress
Blocked == live /\ call # "none"

\* a blocking call returned: write_iter with the iterator exhausted and the
\* cursor at 0, read_while in the iteration that delivered the first frame
\* its predicate does not accept
Returned ==
    /\ call = "none"
    /\ last.ret = "Return"
    /\ remaining = 0
    /\ frame_state = "LeftMsb"
    /\ last.op = "read_while" => last.delivered # NoFrame

C38_PolarityProgrammed ==
    MaterializedOk =>
       \A part \in DriverParts :
          regs[part].i2scfgr.ckpol = (dlast.cfg.clock_polarity = "IdleHigh")

\* ------------------------------------------------------------------------
\* The DualI2s handle of lib.rs: the main and the ext half of one instance.
\* modes is the type parameter MODES: <<>> while no DualI2s value exists, a
\* pair <<main, ext>>, or <<"Init">> for the type DualI2s<I, InitMode> the
\* deconfigure functions of the transmit modes return.

\* data formats and samples of the halves: the two-word formats
DualDataFormats == {"Data24Frame32", "Data32Frame32"}

DualSamples == {1, -256}

InitDual ==
    /\ TransferUnused
    /\ DriverUnused
    /\ I2sUnused
    /\ FormatUnused
    /\ LibUnused

\* a call on the DualI2s value: its name, half and result, the frame format
\* it handed to the codec, the sample given and the words written
DualOp(op, half, ret, used, sample, words) ==
    [op |-> op, half |-> half, ret |-> ret, used |-> used,
     given |-> frame_formats[IF half = "main" THEN 1 ELSE 2],
     sample |-> sample, words |-> words, pre |-> frame_formats]

\* DualI2s::new
dual_new ==
    /\ modes = <<>>
    /\ modes' = <<"Init", "Init">>
    /\ frame_formats' = <<"PhilipsI2s", "PhilipsI2s">>
    /\ xlast' = DualOp("new", "none", "None", "PhilipsI2s", 0, <<>>)
    /\ UNCHANGED <<tvars, dvars, ivars, fvars, mlast, formats>>

\* main_configure_master_transmit, main_configure_master_receive,
\* main_configure_slave_transmit, main_configure_slave_receive: the
\* configuration is written and the frame format of the main half stored
MainConfigure(op, mode) ==
    /\ Len(modes) = 2 /\ modes[1] = "Init"
    /\ \E f \in DualDataFormats, ff \in FrameFormats :
          /\ modes' = <<mode, modes[2]>>
          /\ formats' = <<f, formats[2]>>
          /\ frame_formats' = <<ff, frame_formats[2]>>
          /\ xlast' = DualOp(op, "main", "None", ff, 0, <<>>)
    /\ UNCHANGED <<tvars, dvars, ivars, fvars, mlast>>

main_configure_master_transmit ==
    MainConfigure("main_configure_master_transmit", "Transmit")

main_configure_master_receive ==
    MainConfigure("main_configure_master_receive", "Receive")

main_configure_slave_transmit ==
    MainConfigure("main_configure_slave_transmit", "Transmit")

main_configure_slave_receive ==
    MainConfigure("main_configure_slave_receive", "Receive")

\* ext_configure_slave_transmit and ext_configure_slave_receive: both return
\* DualI2s<I, (ANYMODE, TransmitMode<F>)>
ExtConfigure(op) ==
    /\ Len(modes) = 2 /\ modes[2] = "Init"
    /\ \E f \in DualDataFormats, ff \in FrameFormats :
          /\ modes' = <<modes[1], "Transmit">>
          /\ formats' = <<formats[1], f>>
          /\ frame_formats' = <<frame_formats[1], ff>>
          /\ xlast' = DualOp(op, "ext", "None", ff, 0, <<>>)
    /\ UNCHANGED <<tvars, dvars, ivars, fvars, mlast>>

ext_configure_slave_transmit == ExtConfigure("ext_configure_slave_transmit")

ext_configure_slave_receive == ExtConfigure("ext_configure_slave_receive")

\* what main_transmit / ext_transmit return and write for a half with the
\* data format f, given the TXE flag read and the frame format handed to
\* F::write_sample
DualTransmit(op, half, f, txe, used, sample) ==
    IF txe
    THEN DualOp(op, half, "Ok", used, sample, write_sample(f, used, sample))
    ELSE DualOp(op, half, "WouldBlock", used, sample, <<>>)

\* DualI2s::main_transmit: `F::write_sample(&self.frame_formats.0, ...)`
main_transmit ==
    /\ Len(modes) = 2 /\ modes[1] = "Transmit"
    /\ \E sample \in DualSamples, txe \in BOOLEAN :
          xlast' = DualTransmit("main_transmit", "main", formats[1], txe,
                                frame_formats[1], sample)
    /\ UNCHANGED <<tvars, dvars, ivars, fvars, mlast, modes, formats,
                   frame_formats>>

\* DualI2s::ext_transmit: `F::write_sample(&self.frame_formats.0, ...)` on
\* the ext registers
ext_transmit ==
    /\ Len(modes) = 2 /\ modes[2] = "Transmit"
    /\ \E sample \in DualSamples, txe \in BOOLEAN :
          xlast' = DualTransmit("ext_transmit", "ext", formats[2], txe,
                                frame_formats[1], sample)
    /\ UNCHANGED <<tvars, dvars, ivars, fvars, mlast, modes, formats,
                   frame_formats>>

\* DualI2s::main_receive: `F::read_sample(&self.frame_formats.0, ...)` of the
\* two words read when a sample is ready
main_receive ==
    /\ Len(modes) = 2 /\ modes[1] = "Receive"
    /\ \E w1 \in {255, 65280}, w2 \in {1, 65535}, rxne \in BOOLEAN :
          xlast' =
             IF rxne
             THEN DualOp("main_receive", "main", "Ok", frame_formats[1],
                         read_sample(formats[1], frame_formats[1], <<w1, w2>>),
                         <<w1, w2>>)
             ELSE DualOp("main_receive", "main", "WouldBlock",
                         frame_formats[1], 0, <<>>)
    /\ UNCHANGED <<tvars, dvars, ivars, fvars, mlast, modes, formats,
                   frame_formats>>

\* main_deconfigure of the transmit mode (returns DualI2s<I, InitMode> once
\* main_disable succeeds) and of the receive mode
main_deconfigure ==
    /\ Len(modes) = 2 /\ modes[1] # "Init"
    /\ modes' = IF modes[1] = "Transmit" THEN <<"Init">> ELSE <<"Init", modes[2]>>
    /\ frame_formats' = <<"PhilipsI2s", frame_formats[2]>>
    /\ xlast' = DualOp("main_deconfigure", "main", "None", "PhilipsI2s", 0, <<>>)
    /\ UNCHANGED <<tvars, dvars, ivars, fvars, mlast, formats>>

\* ext_deconfigure of the transmit mode, the only mode an ext half can have
ext_deconfigure ==
    /\ Len(modes) = 2 /\ modes[2] # "Init"
    /\ modes' = <<"Init">>
    /\ frame_formats' = <<frame_formats[1], "PhilipsI2s">>
    /\ xlast' = DualOp("ext_deconfigure", "ext", "None", "PhilipsI2s", 0, <<>>)
    /\ UNCHANGED <<tvars, dvars, ivars, fvars, mlast, formats>>

\* the DualI2s value is dropped
dual_drop ==
    /\ modes # <<>>
    /\ modes' = <<>>
    /\ formats' = <<"Data16Frame16", "Data16Frame16">>
    /\ frame_formats' = <<"PhilipsI2s", "PhilipsI2s">>
    /\ xlast' = NoDualOp
    /\ UNCHANGED <<tvars, dvars, ivars, fvars, mlast>>

NextDual ==
    \/ dual_new
    \/ main_configure_master_transmit
    \/ main_configure_master_receive
    \/ main_configure_slave_transmit
    \/ main_configure_slave_receive
    \/ ext_configure_slave_transmit
    \/ ext_configure_slave_receive
    \/ main_transmit
    \/ ext_transmit
    \/ main_receive
    \/ main_deconfigure
    \/ ext_deconfigure
    \/ dual_drop

SpecDual == InitDual /\ [][NextDual]_vars

\* ------------------------------------------------------------------------
\* C39

\* C39: the halves of a DualI2s keep separate frame formats.  A transmit of
\* a half writes the words of the sample in the frame format that was passed
\* to the configure call of that half, whatever the format of the other
\* half, and configuring or deconfiguring a half leaves the stored frame
\* format of the other half as it was.
C39_HalvesKeepOwnFormat ==
    /\ (xlast.op \in {"main_transmit", "ext_transmit"} /\ xlast.ret = "Ok") =>
          xlast.words =
             write_sample(formats[IF xlast.half = "main" THEN 1 ELSE 2],
                          xlast.given, xlast.sample)
    /\ (xlast.half = "main" /\ Len(modes) > 0) =>
          frame_formats[2] = xlast.pre[2]
    /\ (xlast.half = "ext" /\ Len(modes) > 0) =>
          frame_formats[1] = xlast.pre[1]

\* ------------------------------------------------------------------------
\* Slave configurations (SpecConfig)

\* the configuration that was materialized had the Slave role
SlaveMaterialized ==
    dlast.op \in Materializations /\ dlast.cfg.slave_or_master = "Slave"

\* C40: every Slave configuration the builder reaches (new_slave or to_slave,
\* then any direction, standard, data_format and clock_polarity calls) has
\* the master clock disabled and the frequency Prescaler(odd = 0, div = 2);
\* materializing a Slave configuration never fails and leaves MCKOE = 0,
\* ODD = 0, I2SDIV = 2 in I2SPR of every core it sets up.
C40_SlaveProgramsFixedPrescaler ==
    /\ cfg.slave_or_master = "Slave" =>
          /\ ~cfg.master_clock
          /\ cfg.frequency = Prescaler(FALSE, 2)
    /\ SlaveMaterialized =>
          /\ dlast.panic = "none"
          /\ driver
          /\ \A part \in DriverParts :
                regs[part].i2spr = [mckoe |-> FALSE, odd |-> FALSE, i2sdiv |-> 2]

\* a Slave configuration with settings other than those of new_slave() was
\* materialized on both cores
C40_SlaveMaterialized ==
    /\ SlaveMaterialized
    /\ dual /\ driver
    /\ dlast.cfg.standard # "Philips"
    /\ dlast.cfg.data_format # "Data16Channel16"
    /\ dlast.cfg.clock_polarity = "IdleHigh"
    /\ regs.ext.i2spr.i2sdiv = 2

====
